---- MODULE Spec2Model ----
(***************************************************************************)
(* A model of the ABC-SMC core of pyABC: the acceptors                     *)
(* (pyabc/acceptor/acceptor.py), the temperature scheduler                 *)
(* (pyabc/epsilon/temperature.py) and the proposal generation, evaluation  *)
(* and weighting of pyabc/smc.py, and the generation loop ABCSMC.run().    *)
(*                                                                         *)
(* Every component has a specification of its own over the shared          *)
(* variables: SpecUniform, SpecTemp, SpecStoch, SpecGen (with SpecGenFair, *)
(* the proposal loop under fair draws), SpecEval, SpecLookup, SpecNorm,    *)
(* SpecCtor (the constructors), SpecRecal (the distances of a population   *)
(* after its generation), SpecCal (the calibration sample), SpecFit (the   *)
(* transition kernels), SpecKeys (the keys of a StochasticKernel) and, for *)
(* run() with its collaborators, SpecRun.                                  *)
(*                                                                         *)
(* Representation.  A Python value that may be absent (None, a missing     *)
(* dict key, a call that raises) is the empty set; a present value v is    *)
(* {v}.  Temperatures are counted in halves (One = 1.0).                   *)
(***************************************************************************)
EXTENDS Integers, Sequences, FiniteSets, TLC

VARIABLES
    \* ---- UniformAcceptor.__call__ and its arguments
    use_complete_history,   \* UniformAcceptor.use_complete_history
    dist,                   \* t |-> distance_function(x, x_0, t, par), {} when it raises
    thr,                    \* t |-> eps(t), {} when the lookup raises
    t_call,                 \* the argument t
    u_res,                  \* the AcceptorResult, or the raised exception
    u_evals,                \* the generations the call evaluated the
                            \* distance or the threshold for
    \* ---- Temperature
    temperatures,           \* Temperature.temperatures: generation |-> temperature
    max_nr_populations,     \* Temperature.max_nr_populations, None until initialize
    initial_temperature,    \* Temperature.initial_temperature, None when not configured
    aggregate_fun,          \* Temperature.aggregate_fun
    t_init,                 \* the generation the last initialize was called for
    evaluated,              \* whether the last _update evaluated the schemes
    proposed,               \* the values in the list temps of the last _update
    \* ---- Temperature.__call__ and its argument
    c_t,                    \* the argument t
    c_res,                  \* the value returned, or the raised exception
    \* ---- StochasticAcceptor.initialize and update
    x_0,                    \* StochasticAcceptor.x_0, None until initialize
    kernel_scale,           \* StochasticAcceptor.kernel_scale, None until initialize
    pdf_max,                \* kernel.pdf_max, None when not given
    n_call,                 \* the last initialize or update call and how it ended
    \* ---- ABCSMC: the orchestrator, its collaborators and run()
    eps_sig,                \* the positional parameters eps.initialize and
                            \* eps.update declare
    acceptor_sig,           \* the same for acceptor.initialize and update
    stop_if_only_single_model_alive,
    minimum_epsilon,        \* the arguments of the run() call under way
    run_max_nr_populations,
    min_acceptance_rate,
    history,                \* self.history, None before new() or load()
    db,                     \* the populations the database holds, in the
                            \* order they were appended
    history_done,           \* whether history.done() closed the last run
    initial_population,     \* self._initial_population, None until needed
    dist_rec,               \* generation |-> the hook by which the distance
                            \* last calibrated for it
    eps_rec,                \* generation |-> the value eps recorded for it
    acc_rec,                \* generation |-> the hook by which the acceptor
                            \* last calibrated for it
    fitted,                 \* the generation the transitions were last fit to
    r_pc,                   \* "idle", "sampling" (run() waits for the
                            \* Sampler), "returned" or "raised"
    r_exc,                  \* the exception that left run(), and where
    r_t0,                   \* t0 of the run() call under way
    r_t,                    \* the loop variable t
    current_eps,            \* the local current_eps
    closure,                \* what simulate_one of generation t captured
    sampler,                \* "running" inside sample_until_n_accepted,
                            \* else "idle"
    sample,                 \* what the Sampler has accumulated
    inflight,               \* invocations of simulate_one that have proposed
                            \* and not yet evaluated
    observed,               \* what the invocations of this generation read
    \* ---- StochasticAcceptor.__call__ and its arguments
    pdf_norms,              \* StochasticAcceptor.pdf_norms: generation |-> constant
    ret_scale,              \* kernel.ret_scale
    s_pd,                   \* kernel(x, x_0, t, par)
    s_u,                    \* np.random.uniform(low=0, high=1)
    s_t,                    \* the argument t
    s_res,                  \* the AcceptorResult, or the raised exception
    s_logged,               \* whether the call wrote the "Encountered pd"
                            \* entry to the log
    \* ---- ABCSMC._generate_valid_proposal and its arguments
    g_t,                    \* the argument t
    g_alive,                \* the indices in m, the alive models
    model_prior,            \* model index |-> model_prior.pmf
    parameter_priors,       \* model index |-> parameter |-> parameter_priors[m].pdf
    g_pc,                   \* "start", "loop" (inside while True), "returned"
    m_ss,                   \* the local m_ss, None before it is assigned
    theta_ss,               \* the local theta_ss, None before it is assigned
    \* ---- ABCSMC._evaluate_proposal and its arguments
    e_t,                    \* the argument t
    nr_samples_per_parameter,
    model_results,          \* what models[m_ss].accept(..) returns, call by call
    prior_pmf,              \* model_prior.pmf(m_ss)
    prior_pdf,              \* parameter_priors[m_ss].pdf(theta_ss)
    model_probabilities,    \* the rows: p of an alive model m, and
                            \* pmf = model_perturbation_kernel.pmf(m_ss, m)
    transition_pdf,         \* transitions[m_ss].pdf(theta_ss)
    particle,               \* the Particle returned, None before the call
    printed,                \* whether 'normalization is zero!' was printed
    \* ---- the constructors ABCSMC.__init__ and StochasticKernel.__init__
    abcsmc,                 \* the last ABCSMC(models, parameter_priors): its
                            \* arguments, the attributes set on self, the
                            \* exception raised and the object returned
    kernel,                 \* the same of the last StochasticKernel(ret_scale,
                            \* keys, pdf_max)
    \* ---- the population of a generation in run(), smc.py 819-860
    pop_t,                  \* the generation t the Sampler returned it for
    pop_particles,          \* its particles: the statistics x and the distance
    pop_stored,             \* the particles as history.append_population got them
    df_updated,             \* what distance_function.update(t + 1, ..) returned
    pop_read,               \* the weighted distances passed to eps.update and
                            \* to acceptor.update
    pop_pc,                 \* "idle", "appended" or "updated"
    \* ---- the calibration sample, smc.py 411-498
    cal_db,                 \* the generations the History holds
    cal_nr_samples,         \* History: generation |-> number of evaluations
    cal_cached,             \* where self._initial_population is from, None
                            \* while it is None
    cal_population,         \* its particles
    cal_draws,              \* the calls of _sample_from_prior of this object
    cal_calls,              \* the calls of the accessors of this object
    \* ---- the transition kernels, smc.py 877-915
    transitions,            \* self.transitions: model |-> what the kernel was
                            \* last fit to, None when it never was
    copied_transitions,     \* the copy the population strategy got last, as
                            \* the strategy left it
    fit_call,               \* the last call: the method, t, the models alive
                            \* in t - 1
    \* ---- the keys of a StochasticKernel, kernel.py 41-71
    kernel_keys,            \* self.keys, None or a list of keys
    keys_given,             \* the keys argument of __init__
    keys_x_0,               \* the x_0 of the last initialize, a dict as the
                            \* list of its keys in insertion order, or None
    keys_raised,            \* the last initialize raised
    keys_calls              \* the calls of initialize on this kernel

uvars == <<use_complete_history, dist, thr, t_call, u_res, u_evals>>
tvars == <<temperatures, max_nr_populations, initial_temperature,
           aggregate_fun, t_init, evaluated, proposed>>

cvars == <<c_t, c_res>>

nvars == <<x_0, kernel_scale, pdf_max, n_call>>

\* the configuration of an ABCSMC object
confvars == <<eps_sig, acceptor_sig, stop_if_only_single_model_alive>>
\* the calibrated state of its components
compvars == <<dist_rec, eps_rec, acc_rec, fitted>>
\* what the Sampler holds
smplvars == <<closure, sampler, sample, inflight, observed>>

rvars == <<confvars, compvars, smplvars, minimum_epsilon,
           run_max_nr_populations, min_acceptance_rate, history, db,
           history_done, initial_population, r_pc, r_exc, r_t0, r_t,
           current_eps>>

svars == <<pdf_norms, ret_scale, s_pd, s_u, s_t, s_res, s_logged>>

gvars == <<g_t, g_alive, model_prior, parameter_priors, g_pc, m_ss, theta_ss>>

evars == <<e_t, nr_samples_per_parameter, model_results, prior_pmf, prior_pdf,
           model_probabilities, transition_pdf, particle, printed>>

\* the variables of the orchestrator and of the calls it makes
ctorvars == <<abcsmc, kernel>>

dvars == <<pop_t, pop_particles, pop_stored, df_updated, pop_read, pop_pc>>

qvars == <<cal_db, cal_nr_samples, cal_cached, cal_population, cal_draws,
           cal_calls>>

fvars == <<transitions, copied_transitions, fit_call>>

\* the constructors, the population of a generation, the calibration sample,
\* the transition kernels
yvars == <<kernel_keys, keys_given, keys_x_0, keys_raised, keys_calls>>
kvars == <<ctorvars, dvars, qvars, fvars, yvars>>

ovars == <<cvars, nvars, rvars, kvars>>

vars == <<uvars, tvars, svars, gvars, evars, ovars>>

-----------------------------------------------------------------------------
(* Bounds *)

MaxHist == 2
MaxDist == 1
MaxGen == 2
MaxPop == 3
MaxTemp == 3
MaxSchemes == 2
MaxAccGen == 1
MaxExp == 2
MaxU == 3
MaxModel == 2
MaxSamples == 2
MaxAccWeight == 2
MaxDens == 1
MaxRows == 1
MaxRunGen == 1
MaxRunPop == 2
MaxEps == 1
MaxRunModel == 1
MaxParticles == 2
MaxEvals == 3
MaxInflight == 2
MaxCtor == 2
MaxKey == 2
MaxKeyCalls == 3
MaxFitGen == 2
MaxCalCalls == 3
MaxFairModel == 1
MaxRecalGen == 3
MaxStat == 2

-----------------------------------------------------------------------------
(* Optional values *)

None == {}
Some(v) == {v}
Get(s) == CHOOSE v \in s : TRUE
IsNone(s) == s = {}

Opt(S) == {None} \cup {Some(v) : v \in S}

-----------------------------------------------------------------------------
(* Non-negative reals: 0.0, or 2^(n/d) with d > 0, kept as [zero, n, d].   *)

WZero == [zero |-> TRUE, n |-> 0, d |-> 1]
WVal(n, d) == [zero |-> FALSE, n |-> n, d |-> d]
WOne == WVal(0, 1)

\* a >= b
VGeq(a, b) ==
    IF b.zero THEN TRUE
    ELSE IF a.zero THEN FALSE
    ELSE a.n * b.d >= b.n * a.d

\* a == b
VEq(a, b) == VGeq(a, b) /\ VGeq(b, a)

(* AcceptorResult, acceptor.py 31-55.  weight defaults to 1.0.              *)

AcceptorResult(distance, accept, weight) ==
    [called |-> TRUE, raised |-> FALSE,
     distance |-> distance, accept |-> accept, weight |-> weight]

\* the call left by an exception: no result is returned
Raised == [called |-> TRUE, raised |-> TRUE,
           distance |-> None, accept |-> FALSE, weight |-> WZero]

\* before any call
NoCall == [called |-> FALSE, raised |-> FALSE,
           distance |-> None, accept |-> FALSE, weight |-> WZero]

-----------------------------------------------------------------------------
(* UniformAcceptor *)

HistGens == 0..MaxHist
DistVals == 0..MaxDist

\* d <= eps(t) where both evaluations returned
Leq(d, e) == Get(d) <= Get(e)

\* an evaluation of distance_function(.., t, ..) or of eps(t) raises
Raises(d, e, t) == IsNone(d[t]) \/ IsNone(e[t])

accept_use_current_time_lt(d, e, t) ==
    IF Raises(d, e, t) THEN Raised
    ELSE AcceptorResult(d[t], Get(d[t]) < Get(e[t]), WOne)

accept_use_current_time(d, e, t) ==
    IF Raises(d, e, t) THEN Raised
    ELSE AcceptorResult(d[t], Leq(d[t], e[t]), WOne)

\* the loop "for t_prev in range(0, t)" from t_prev on, entered with accept
RECURSIVE history_loop_nobreak(_, _, _, _, _)
history_loop_nobreak(d, e, t, t_prev, accept) ==
    IF t_prev >= t THEN accept
    ELSE IF Raises(d, e, t_prev)
         THEN history_loop_nobreak(d, e, t, t_prev + 1, TRUE)
         ELSE history_loop_nobreak(d, e, t, t_prev + 1,
                                   Leq(d[t_prev], e[t_prev]))

RECURSIVE history_loop(_, _, _, _, _)
history_loop(d, e, t, t_prev, accept) ==
    IF t_prev >= t THEN accept
    ELSE IF Raises(d, e, t_prev)
         THEN \* except Exception: accept = True
              history_loop(d, e, t, t_prev + 1, TRUE)
         ELSE IF ~Leq(d[t_prev], e[t_prev])
              THEN FALSE     \* accept = False; break
              ELSE history_loop(d, e, t, t_prev + 1, TRUE)

\* the current generation is evaluated inside the try block as well
accept_use_complete_history_lenient(d, e, t) ==
    IF Raises(d, e, t)
    THEN AcceptorResult(d[t], history_loop(d, e, t, 0, TRUE), WOne)
    ELSE LET accept == Leq(d[t], e[t])
         IN  AcceptorResult(d[t],
                            IF accept THEN history_loop(d, e, t, 0, accept)
                                      ELSE accept,
                            WOne)

\* the result carries d_prev of the generation that rejected
accept_use_complete_history_dprev(d, e, t) ==
    IF Raises(d, e, t) THEN Raised
    ELSE LET accept == Leq(d[t], e[t])
             failing == {g \in 0..(t - 1) :
                            ~Raises(d, e, g) /\ ~Leq(d[g], e[g])}
             first == CHOOSE g \in failing : \A h \in failing : g <= h
         IN  IF accept /\ failing # {}
             THEN AcceptorResult(d[first], FALSE, WOne)
             ELSE AcceptorResult(d[t], accept, WOne)

\* the history is consulted whatever the current comparison gave
accept_use_complete_history_nofirst(d, e, t) ==
    IF Raises(d, e, t) THEN Raised
    ELSE AcceptorResult(d[t], history_loop(d, e, t, 0, TRUE), WOne)

accept_use_complete_history(d, e, t) ==
    IF Raises(d, e, t) THEN Raised
    ELSE LET accept == Leq(d[t], e[t])
         IN  AcceptorResult(d[t],
                            IF accept THEN history_loop(d, e, t, 0, accept)
                                      ELSE accept,
                            WOne)

UniformAcceptor_call(uch, d, e, t) ==
    IF uch THEN accept_use_complete_history(d, e, t)
           ELSE accept_use_current_time(d, e, t)

\* the generations the loop "for t_prev in range(0, t)" evaluates from
\* t_prev on, up to the break
RECURSIVE history_evaluations(_, _, _, _)
history_evaluations(d, e, t, t_prev) ==
    IF t_prev >= t THEN {}
    ELSE IF ~Raises(d, e, t_prev) /\ ~Leq(d[t_prev], e[t_prev])
         THEN {t_prev}
         ELSE {t_prev} \cup history_evaluations(d, e, t, t_prev + 1)

\* the generations a call evaluates: t, and the earlier ones when the
\* complete-history policy found the comparison at t to hold
evaluations(uch, d, e, t) ==
    IF uch /\ ~Raises(d, e, t) /\ Leq(d[t], e[t])
    THEN {t} \cup history_evaluations(d, e, t, 0)
    ELSE {t}

UniformInit ==
    /\ use_complete_history \in BOOLEAN
    /\ dist \in [HistGens -> Opt(DistVals)]
    /\ thr \in [HistGens -> Opt(DistVals)]
    /\ t_call \in HistGens
    /\ u_res = NoCall
    /\ u_evals = {}

UniformCall ==
    /\ ~u_res.called
    /\ u_res' = UniformAcceptor_call(use_complete_history, dist, thr, t_call)
    /\ u_evals' = evaluations(use_complete_history, dist, thr, t_call)
    /\ UNCHANGED <<use_complete_history, dist, thr, t_call>>
    /\ UNCHANGED <<tvars, svars, gvars, evars, ovars>>

UniformIdle ==
    /\ use_complete_history = FALSE
    /\ dist = [g \in HistGens |-> None]
    /\ thr = [g \in HistGens |-> None]
    /\ t_call = 0
    /\ u_res = NoCall
    /\ u_evals = {}

-----------------------------------------------------------------------------
(* Temperature, temperature.py.  Temperatures are counted in halves.       *)

\* the literal 1.0
One == 2

TempGens == 0..MaxGen
TempVals == 1..MaxTemp

\* np.inf: above every temperature and every generation index
np_inf == MaxGen + MaxTemp + 2

EmptyDict == [g \in {} |-> 0]

SetMin(S) == CHOOSE x \in S : \A y \in S : x <= y
SetMax(S) == CHOOSE x \in S : \A y \in S : x >= y
min(a, b) == IF a <= b THEN a ELSE b
max(a, b) == IF a >= b THEN a ELSE b
Range(f) == {f[i] : i \in DOMAIN f}

\* __init__: aggregate_fun None becomes the minimum
Temperature_aggregate_fun(arg) == IF arg = "None" THEN "min" ELSE arg

\* self.aggregate_fun(temps)
aggregate(f, temps) ==
    IF f = "min" THEN SetMin(Range(temps)) ELSE SetMax(Range(temps))

\* the value the fallback takes when no temperature is recorded for t - 1
no_fallback == np_inf

\* self.temperatures[t - 1] if t - 1 in self.temperatures
fallback(temps_rec, t) ==
    IF (t - 1) \in DOMAIN temps_rec THEN temps_rec[t - 1] ELSE no_fallback

\* "t is last time"
is_last_time_gt(t, maxpop) == t > maxpop - 1

is_last_time(t, maxpop) == t >= maxpop - 1

\* no lower clamp
clamp_nofloor(proposed_value, fb) == min(proposed_value, fb)

\* max(min(proposed_value, fallback), 1.0)
clamp(proposed_value, fb) == max(min(proposed_value, fb), One)

\* the proposals are aggregated by the maximum whatever aggregate_fun is
Temperature_value_aggmax(temps_rec, maxpop, init_temp, f, t, temps) ==
    IF is_last_time(t, maxpop) THEN One
    ELSE IF DOMAIN temps_rec = {} /\ ~IsNone(init_temp) THEN Get(init_temp)
    ELSE clamp(SetMax(Range(temps)), fallback(temps_rec, t))

\* _update without the branch that takes the initial temperature
Temperature_value_noinit(temps_rec, maxpop, init_temp, f, t, temps) ==
    IF is_last_time(t, maxpop) THEN One
    ELSE clamp(aggregate(f, temps), fallback(temps_rec, t))

\* the temperature _update computes for t from the proposals of the schemes
Temperature_value(temps_rec, maxpop, init_temp, f, t, temps) ==
    IF is_last_time(t, maxpop) THEN One
    ELSE IF DOMAIN temps_rec = {} /\ ~IsNone(init_temp) THEN Get(init_temp)
    ELSE clamp(aggregate(f, temps), fallback(temps_rec, t))

\* whether _update(t, ..) reaches the branch that evaluates the schemes
evaluates_schemes(t, maxpop) ==
    /\ ~is_last_time(t, maxpop)
    /\ ~(DOMAIN temperatures = {} /\ ~IsNone(initial_temperature))

\* _update(t, ..): records the value for t
Temperature_update(t, maxpop, temps) ==
    /\ temperatures' =
        (t :> Temperature_value(temperatures, maxpop, initial_temperature,
                                aggregate_fun, t, temps)) @@ temperatures
    /\ evaluated' = evaluates_schemes(t, maxpop)
    /\ proposed' = IF evaluates_schemes(t, maxpop) THEN Range(temps) ELSE {}

Proposals == UNION {[1..n -> TempVals] : n \in 1..MaxSchemes}

LastRecorded == SetMax(DOMAIN temperatures)

\* the lists temps that _update(t, ..) may build: none unless it evaluates
\* the schemes
ProposalsAt(t, maxpop) ==
    IF evaluates_schemes(t, maxpop) THEN Proposals ELSE {<<One>>}

TempInit ==
    /\ temperatures = EmptyDict
    /\ max_nr_populations = None
    /\ initial_temperature \in Opt(TempVals)
    /\ aggregate_fun \in {Temperature_aggregate_fun(a) : a \in {"None", "max"}}
    /\ t_init = None
    /\ evaluated = FALSE
    /\ proposed = {}

\* initialize(t, .., max_nr_populations); run() calls it for history.max_t + 1,
\* which is the last generation update() recorded when there is one
TempInitialize ==
    \E t \in TempGens, maxpop \in (1..MaxPop) \cup {np_inf} :
      \E temps \in ProposalsAt(t, maxpop) :
        /\ DOMAIN temperatures # {} => t = LastRecorded
        /\ max_nr_populations' = Some(maxpop)
        /\ t_init' = Some(t)
        /\ Temperature_update(t, maxpop, temps)
        /\ UNCHANGED <<initial_temperature, aggregate_fun>>
        /\ UNCHANGED <<uvars, svars, gvars, evars, ovars>>

\* update(t, ..) for the generation after the last recorded one
TempUpdate ==
    /\ ~IsNone(max_nr_populations)
    /\ LastRecorded + 1 \in TempGens
    /\ \E temps \in ProposalsAt(LastRecorded + 1, Get(max_nr_populations)) :
        /\ Temperature_update(LastRecorded + 1, Get(max_nr_populations), temps)
        /\ UNCHANGED <<max_nr_populations, initial_temperature,
                       aggregate_fun, t_init>>
        /\ UNCHANGED <<uvars, svars, gvars, evars, ovars>>

TempIdle ==
    /\ temperatures = EmptyDict
    /\ max_nr_populations = None
    /\ initial_temperature = None
    /\ aggregate_fun = "min"
    /\ t_init = None
    /\ evaluated = FALSE
    /\ proposed = {}

-----------------------------------------------------------------------------
(* Temperature.__call__, temperature.py 104-106.                           *)

\* what a lookup leaves: the value returned or the KeyError raised, and the
\* mapping afterwards
Found(v, temps_rec) ==
    [called |-> TRUE, raised |-> FALSE, value |-> Some(v),
     temperatures |-> temps_rec]
KeyError(temps_rec) ==
    [called |-> TRUE, raised |-> TRUE, value |-> None,
     temperatures |-> temps_rec]
NoLookup == [called |-> FALSE, raised |-> FALSE, value |-> None,
             temperatures |-> EmptyDict]

\* a lookup that fills in 1.0 for a generation without a value
Temperature_call_setdefault(temps_rec, t) ==
    IF t \in DOMAIN temps_rec THEN Found(temps_rec[t], temps_rec)
    ELSE Found(One, (t :> One) @@ temps_rec)

\* return self.temperatures[t]
Temperature_call(temps_rec, t) ==
    IF t \in DOMAIN temps_rec THEN Found(temps_rec[t], temps_rec)
    ELSE KeyError(temps_rec)

\* the mappings a scheduler has recorded: values for consecutive generations
RecordedDicts ==
    {EmptyDict} \cup
    UNION {[a..b -> TempVals] : a \in TempGens, b \in TempGens}

LookupInit ==
    /\ temperatures \in RecordedDicts
    /\ max_nr_populations \in Opt((1..MaxPop) \cup {np_inf})
    /\ temperatures # EmptyDict => ~IsNone(max_nr_populations)
    /\ initial_temperature = None
    /\ aggregate_fun = "min"
    /\ t_init = None
    /\ evaluated = FALSE
    /\ proposed = {}
    /\ c_t \in TempGens
    /\ c_res = NoLookup

\* __call__(t)
TempCall ==
    /\ ~c_res.called
    /\ c_res' = Temperature_call(temperatures, c_t)
    /\ temperatures' = c_res'.temperatures
    /\ UNCHANGED <<max_nr_populations, initial_temperature, aggregate_fun,
                   t_init, evaluated, proposed, c_t>>
    /\ UNCHANGED <<uvars, svars, gvars, evars, nvars, rvars, kvars>>

LookupIdle ==
    /\ c_t = 0
    /\ c_res = NoLookup

-----------------------------------------------------------------------------
(* StochasticAcceptor.__call__, acceptor.py 380-420.  A linear-scale kernel *)
(* value or constant is 0 or a power of two; a log-scale one is an integer  *)
(* (the logarithm to base 2) or neg_inf, the logarithm of 0.                *)

RET_SCALE_LIN == "RET_SCALE_LIN"
RET_SCALE_LOG == "RET_SCALE_LOG"
RET_SCALES == {RET_SCALE_LIN, RET_SCALE_LOG}

\* the tag imported as SCALE_LIN from pyabc.distance
SCALE_LIN == RET_SCALE_LIN

RECURSIVE Pow2(_)
Pow2(k) == IF k = 0 THEN 1 ELSE 2 * Pow2(k - 1)

RECURSIVE Log2(_)
Log2(v) == IF v <= 1 THEN 0 ELSE 1 + Log2(v \div 2)

neg_inf == 0 - np_inf

LinNorms == {Pow2(k) : k \in 0..MaxExp}
LinVals == {0} \cup LinNorms
LogNorms == (0 - MaxExp)..MaxExp
LogVals == {neg_inf} \cup LogNorms

AccGens == 0..MaxAccGen
UVals == {WZero} \cup {WVal(0 - k, 2) : k \in 1..MaxU}

\* pd / pdf_norm
rescale_lin(pd, pdf_norm) ==
    IF pd = 0 THEN WZero ELSE WVal(Log2(pd) - Log2(pdf_norm), 1)

\* np.exp(pd - pdf_norm)
rescale_log(pd, pdf_norm) ==
    IF pd = neg_inf THEN WZero ELSE WVal(pd - pdf_norm, 1)

\* the branches taken the other way round
rescale_swapped(scale, pd, pdf_norm) ==
    IF scale = SCALE_LIN THEN rescale_log(pd, pdf_norm)
                         ELSE rescale_lin(pd, pdf_norm)

rescale(scale, pd, pdf_norm) ==
    IF scale = SCALE_LIN THEN rescale_lin(pd, pdf_norm)
                         ELSE rescale_log(pd, pdf_norm)

\* pd_rescaled ** (1 / temp), temp in halves
power(pd_rescaled, temp) ==
    IF pd_rescaled.zero THEN WZero
    ELSE WVal(pd_rescaled.n * One, pd_rescaled.d * temp)

\* a weight that never exceeds 1.0
stochastic_weight_clamped(acceptance_probability) ==
    IF acceptance_probability.zero THEN WZero ELSE WOne

\* the weight without the importance correction
stochastic_weight_plain(acceptance_probability) == acceptance_probability

\* 0.0, or acceptance_probability / min(1, acceptance_probability)
stochastic_weight(acceptance_probability) ==
    IF acceptance_probability.zero THEN WZero
    ELSE WVal(acceptance_probability.n - min(acceptance_probability.n, 0),
              acceptance_probability.d)

StochasticAcceptor_call(norms, temps_rec, scale, pd, u, t) ==
    IF t \notin DOMAIN temps_rec \/ t \notin DOMAIN norms THEN Raised
    ELSE LET temp == temps_rec[t]
             pdf_norm == norms[t]
             acceptance_probability == power(rescale(scale, pd, pdf_norm), temp)
             accept == VGeq(acceptance_probability, u)
         IN  AcceptorResult(Some(pd), accept,
                            stochastic_weight(acceptance_probability))

\* "check pdf max ok": the log entry is written when pdf_norm < pd
pd_exceeds_logged(norms, temps_rec, pd, t) ==
    /\ t \in DOMAIN temps_rec
    /\ t \in DOMAIN norms
    /\ norms[t] < pd

OptDict(t, S) == {EmptyDict} \cup {(t :> v) : v \in S}

StochInit ==
    /\ s_t \in AccGens
    /\ ret_scale \in RET_SCALES
    /\ temperatures \in OptDict(s_t, TempVals)
    /\ max_nr_populations = None
    /\ initial_temperature = None
    /\ aggregate_fun = "min"
    /\ t_init = None
    /\ evaluated = FALSE
    /\ proposed = {}
    /\ pdf_norms \in OptDict(s_t, IF ret_scale = RET_SCALE_LIN
                                   THEN LinNorms ELSE LogNorms)
    /\ s_pd \in (IF ret_scale = RET_SCALE_LIN THEN LinVals ELSE LogVals)
    /\ s_u \in UVals
    /\ s_res = NoCall
    /\ s_logged = FALSE

StochCall ==
    /\ ~s_res.called
    /\ s_res' = StochasticAcceptor_call(pdf_norms, temperatures, ret_scale,
                                        s_pd, s_u, s_t)
    /\ s_logged' = pd_exceeds_logged(pdf_norms, temperatures, s_pd, s_t)
    /\ UNCHANGED <<pdf_norms, ret_scale, s_pd, s_u, s_t>>
    /\ UNCHANGED <<uvars, tvars, gvars, evars, ovars>>

StochIdle ==
    /\ pdf_norms = EmptyDict
    /\ ret_scale = RET_SCALE_LIN
    /\ s_pd = 0
    /\ s_u = WZero
    /\ s_t = 0
    /\ s_res = NoCall
    /\ s_logged = FALSE

-----------------------------------------------------------------------------
(* StochasticAcceptor.initialize, update and _update, acceptor.py 335-372. *)

\* the values a constant or a density maximum takes on the kernel's scale
NormVals(scale) == IF scale = RET_SCALE_LIN THEN LinNorms ELSE LogNorms

\* the default pdf_norm_method (pyabc.acceptor.pdf_norm): the largest density
\* found in the weighted distances, not below the previous constant
pdf_norm_max_found(kernel_val, found, prev_pdf_norm) ==
    max(prev_pdf_norm, found)

\* the positional parameters of _update after self: t,
\* get_weighted_distances, kernel
StochasticAcceptor_update_params == 3

\* how a call ended: exception is "" when it returned
NormCall(op, t, found, exception, norms) ==
    [called |-> TRUE, op |-> op, t |-> t, found |-> found,
     exception |-> exception, pdf_norms |-> norms]
NoNormCall ==
    [called |-> FALSE, op |-> "", t |-> 0, found |-> 0,
     exception |-> "", pdf_norms |-> EmptyDict]

\* _update(*args): args are the positional arguments after self
StochasticAcceptor_update(op, norms, args, kernel_val, found) ==
    IF Len(args) # StochasticAcceptor_update_params
    THEN NormCall(op, args[1], found, "TypeError", norms)
    ELSE IF DOMAIN norms = {}
    THEN \* max(self.pdf_norms.values()) of an empty dict
         NormCall(op, args[1], found, "ValueError", norms)
    ELSE LET pdf_norm == pdf_norm_max_found(kernel_val, found,
                                            SetMax(Range(norms)))
         IN  NormCall(op, args[1], found, "", (args[1] :> pdf_norm) @@ norms)

NormInit ==
    /\ pdf_norms = EmptyDict
    /\ ret_scale \in RET_SCALES
    /\ pdf_max \in Opt(NormVals(ret_scale))
    /\ x_0 = None
    /\ kernel_scale = None
    /\ n_call = NoNormCall
    /\ s_pd = 0
    /\ s_u = WZero
    /\ s_t = 0
    /\ s_res = NoCall
    /\ s_logged = FALSE

\* initialize(t, get_weighted_distances, distance_function, x_0): calls
\* self._update(t, get_weighted_distances, distance_function, 1.0)
NormInitialize ==
    \E t \in AccGens, found \in NormVals(ret_scale) :
        /\ x_0' = Some("x_0")
        /\ kernel_scale' = Some(ret_scale)
        /\ n_call' = StochasticAcceptor_update(
                         "initialize", pdf_norms,
                         <<t, "get_weighted_distances", "distance_function",
                           "1.0">>,
                         pdf_max, found)
        /\ pdf_norms' = n_call'.pdf_norms
        /\ UNCHANGED <<ret_scale, s_pd, s_u, s_t, s_res, s_logged, pdf_max>>
        /\ UNCHANGED <<uvars, tvars, gvars, evars, cvars, rvars, kvars>>

\* update(t, weighted_distances, distance_function): calls
\* self._update(t, lambda: weighted_distances, distance_function)
NormUpdate ==
    \E t \in AccGens, found \in NormVals(ret_scale) :
        /\ n_call' = StochasticAcceptor_update(
                         "update", pdf_norms,
                         <<t, "lambda", "distance_function">>,
                         pdf_max, found)
        /\ pdf_norms' = n_call'.pdf_norms
        /\ UNCHANGED <<ret_scale, s_pd, s_u, s_t, s_res, s_logged, pdf_max,
                       x_0, kernel_scale>>
        /\ UNCHANGED <<uvars, tvars, gvars, evars, cvars, rvars, kvars>>

NormIdle ==
    /\ x_0 = None
    /\ kernel_scale = None
    /\ pdf_max = None
    /\ n_call = NoNormCall

-----------------------------------------------------------------------------
(* ABCSMC._generate_valid_proposal, smc.py 570-615.  Parameters are the    *)
(* abstract values of Thetas; a prior density is 0 outside its support and *)
(* 1 inside.                                                               *)

Models == 0..MaxModel
Thetas == {"a", "b"}

\* the densities a parameter prior may have: positive on none, one or both
\* of the parameter values
PriorDensities ==
    {[th \in Thetas |-> IF th \in S THEN 1 ELSE 0] : S \in {{}, {"a"}, Thetas}}

\* m, the array of the alive indices in increasing order
RECURSIVE m_array(_)
m_array(alive) ==
    IF alive = {} THEN <<>>
    ELSE <<SetMin(alive)>> \o m_array(alive \ {SetMin(alive)})

\* the values rvs() of a distribution with the given weights can return
Support(f) == {x \in DOMAIN f : f[x] > 0}

\* a test that no proposal passes
valid_proposal_never(mp, pp, m, th) == mp[m] * pp[m][th] > 1

\* model_prior.pmf(m_ss) * parameter_priors[m_ss].pdf(theta_ss) > 0
valid_proposal(mp, pp, m, th) == mp[m] * pp[m][th] > 0

\* the perturbed index is used without looking it up in m
perturbed_alive_unchecked(m, alive) == TRUE

\* not (m_ss not in m)
perturbed_alive(m, alive) == m \in alive

GenInit ==
    /\ g_t \in {0, 1}
    /\ g_alive \in (SUBSET Models) \ {{}}
    /\ model_prior \in [Models -> {0, 1}]
    /\ parameter_priors \in [Models -> PriorDensities]
    /\ g_pc = "start"
    /\ m_ss = None
    /\ theta_ss = None

\* t == 0: sample from the prior and return
GenFromPrior ==
    /\ g_pc = "start"
    /\ g_t = 0
    /\ \E m \in Support(model_prior) :
         \E th \in Support(parameter_priors[m]) :
            /\ m_ss' = Some(m)
            /\ theta_ss' = Some(th)
    /\ g_pc' = "returned"
    /\ UNCHANGED <<g_t, g_alive, model_prior, parameter_priors>>
    /\ UNCHANGED <<uvars, tvars, svars, evars, ovars>>

\* one pass of the body of "while True"
GenIteration ==
    /\ g_pc \in {"start", "loop"}
    /\ g_t > 0
    /\ LET m == m_array(g_alive)
       IN  \E index \in DOMAIN m, perturbed \in Models, th \in Thetas :
             LET m_new == IF Len(m) > 1 THEN perturbed ELSE m[1]
             IN  IF Len(m) > 1 /\ ~perturbed_alive(m_new, g_alive)
                 THEN \* continue
                      /\ m_ss' = Some(m_new)
                      /\ theta_ss' = theta_ss
                      /\ g_pc' = "loop"
                 ELSE /\ m_ss' = Some(m_new)
                      /\ theta_ss' = Some(th)
                      /\ g_pc' = IF valid_proposal(model_prior,
                                                   parameter_priors, m_new, th)
                                 THEN "returned" ELSE "loop"
    /\ UNCHANGED <<g_t, g_alive, model_prior, parameter_priors>>
    /\ UNCHANGED <<uvars, tvars, svars, evars, ovars>>

\* the pass of the loop in which the random choices give a pair that is
\* returned
GenReturns == GenIteration /\ g_pc' = "returned"

GenIdle ==
    /\ g_t = 0
    /\ g_alive = {0}
    /\ model_prior = [m \in Models |-> 1]
    /\ parameter_priors = [m \in Models |-> [th \in Thetas |-> 1]]
    /\ g_pc = "start"
    /\ m_ss = None
    /\ theta_ss = None

-----------------------------------------------------------------------------
(* ABCSMC._evaluate_proposal and _calc_proposal_weight, smc.py 617-731.    *)
(* Densities and acceptor weights are small naturals; a particle weight is *)
(* the fraction n/d, d = 0 standing for the result of a division by zero.  *)

Frac(n, d) == [n |-> n, d |-> d]

\* the result of the i-th call of models[m_ss].accept: its summary
\* statistics and distance are named by i
ModelResults(i) ==
    {[accepted |-> TRUE, sum_stats |-> i, distance |-> i, weight |-> w] :
        w \in 0..MaxAccWeight}
    \cup {[accepted |-> FALSE, sum_stats |-> i, distance |-> i, weight |-> 1]}

ResultLists(n) ==
    {rs \in [1..n -> UNION {ModelResults(i) : i \in 1..n}] :
        \A i \in 1..n : rs[i] \in ModelResults(i)}

Rows == [p : 1..(MaxDens + 1), pmf : 0..MaxDens]

RECURSIVE SeqSum(_)
SeqSum(q) == IF q = <<>> THEN 0 ELSE Head(q) + SeqSum(Tail(q))

RECURSIVE SeqProd(_)
SeqProd(q) == IF q = <<>> THEN 1 ELSE Head(q) * SeqProd(Tail(q))

\* a loop that keeps nothing of a rejected simulation
RECURSIVE evaluate_loop_accepted_only(_, _, _)
evaluate_loop_accepted_only(results, i, lists) ==
    IF i > Len(results) THEN lists
    ELSE LET model_result == results[i]
         IN  IF model_result.accepted
             THEN evaluate_loop_accepted_only(results, i + 1,
                    [lists EXCEPT
                       !.accepted_sum_stats = Append(@, model_result.sum_stats),
                       !.accepted_distances = Append(@, model_result.distance),
                       !.accepted_weights = Append(@, model_result.weight)])
             ELSE evaluate_loop_accepted_only(results, i + 1, lists)

\* the lists after the loop "for _ in range(nr_samples_per_parameter)"
RECURSIVE evaluate_loop(_, _, _)
evaluate_loop(results, i, lists) ==
    IF i > Len(results) THEN lists
    ELSE LET model_result == results[i]
         IN  IF model_result.accepted
             THEN evaluate_loop(results, i + 1,
                    [lists EXCEPT
                       !.accepted_sum_stats = Append(@, model_result.sum_stats),
                       !.accepted_distances = Append(@, model_result.distance),
                       !.accepted_weights = Append(@, model_result.weight)])
             ELSE evaluate_loop(results, i + 1,
                    [lists EXCEPT
                       !.rejected_sum_stats = Append(@, model_result.sum_stats),
                       !.rejected_distances = Append(@, model_result.distance)])

EmptyLists ==
    [accepted_sum_stats |-> <<>>, accepted_distances |-> <<>>,
     rejected_sum_stats |-> <<>>, rejected_distances |-> <<>>,
     accepted_weights |-> <<>>]

\* sum(row.p * model_perturbation_kernel.pmf(m_ss, m) for m, row in ..)
model_factor(rows) == SeqSum([i \in DOMAIN rows |-> rows[i].p * rows[i].pmf])

\* the weight of a later generation, whatever t is
weight_later(distance_list, acceptance_weights, t, rows, mp, pp, nr, tp) ==
    Frac(mp * pp * Len(distance_list) * SeqProd(acceptance_weights),
         nr * (model_factor(rows) * tp))

\* a zero normalization gives the weight 0
weight_zero_guarded(distance_list, acceptance_weights, t, rows, mp, pp, nr, tp) ==
    IF t = 0
    THEN Frac(Len(distance_list), nr)
    ELSE IF model_factor(rows) * tp = 0
    THEN Frac(0, 1)
    ELSE Frac(mp * pp * Len(distance_list) * SeqProd(acceptance_weights),
              nr * (model_factor(rows) * tp))

\* the weight without the acceptance weights
weight_noacc(distance_list, acceptance_weights, t, rows, mp, pp, nr, tp) ==
    IF t = 0
    THEN Frac(Len(distance_list), nr)
    ELSE Frac(mp * pp * Len(distance_list), nr * (model_factor(rows) * tp))

_calc_proposal_weight(distance_list, acceptance_weights, t, rows, mp, pp, nr, tp) ==
    IF t = 0
    THEN Frac(Len(distance_list), nr)
    ELSE LET normalization == model_factor(rows) * tp
             \* weight = pmf * pdf * (len / nr) / normalization * prod(weights)
         IN  Frac(mp * pp * Len(distance_list) * SeqProd(acceptance_weights),
                  nr * normalization)

_evaluate_proposal(m, th, t, rows, nr, results, mp, pp, tp) ==
    LET lists == evaluate_loop(results, 1, EmptyLists)
        accepted == Len(lists.accepted_sum_stats) > 0
        weight == IF accepted
                  THEN _calc_proposal_weight(lists.accepted_distances,
                                             lists.accepted_weights,
                                             t, rows, mp, pp, nr, tp)
                  ELSE Frac(0, 1)
    IN  [m |-> m, parameter |-> th, weight |-> weight,
         accepted_sum_stats |-> lists.accepted_sum_stats,
         accepted_distances |-> lists.accepted_distances,
         rejected_sum_stats |-> lists.rejected_sum_stats,
         rejected_distances |-> lists.rejected_distances,
         accepted |-> accepted]

\* print('normalization is zero!'): _calc_proposal_weight is called for an
\* accepted proposal, and prints for t > 0 and a zero normalization
normalization_printed(t, rows, results, tp) ==
    /\ Len(evaluate_loop(results, 1, EmptyLists).accepted_sum_stats) > 0
    /\ t # 0
    /\ model_factor(rows) * tp = 0

\* the proposal (m_ss, theta_ss) handed over by _generate_valid_proposal
EvalProposal ==
    /\ g_t = e_t
    /\ g_alive = {0}
    /\ model_prior = [m \in Models |-> 1]
    /\ parameter_priors = [m \in Models |-> [th \in Thetas |-> 1]]
    /\ g_pc = "returned"
    /\ m_ss = Some(0)
    /\ theta_ss = Some("a")

EvalInit ==
    /\ e_t \in {0, 1}
    /\ nr_samples_per_parameter \in 1..MaxSamples
    /\ model_results \in ResultLists(nr_samples_per_parameter)
    /\ prior_pmf \in 0..MaxDens
    /\ prior_pdf \in 0..MaxDens
    /\ model_probabilities \in UNION {[1..n -> Rows] : n \in 1..MaxRows}
    /\ transition_pdf \in 0..MaxDens
    /\ particle = None
    /\ printed = FALSE

EvaluateProposal ==
    /\ particle = None
    /\ g_pc = "returned"
    /\ particle' = Some(_evaluate_proposal(
                        Get(m_ss), Get(theta_ss), e_t, model_probabilities,
                        nr_samples_per_parameter, model_results,
                        prior_pmf, prior_pdf, transition_pdf))
    /\ printed' = normalization_printed(e_t, model_probabilities,
                                        model_results, transition_pdf)
    /\ UNCHANGED <<e_t, nr_samples_per_parameter, model_results, prior_pmf,
                   prior_pdf, model_probabilities, transition_pdf>>
    /\ UNCHANGED <<uvars, tvars, svars, gvars, ovars>>

EvalIdle ==
    /\ e_t = 0
    /\ nr_samples_per_parameter = 1
    /\ model_results = <<>>
    /\ prior_pmf = 0
    /\ prior_pdf = 0
    /\ model_probabilities = <<>>
    /\ transition_pdf = 0
    /\ particle = None
    /\ printed = FALSE

-----------------------------------------------------------------------------
(* ABCSMC.new, load and run, smc.py 234-568 and 733-915, with the History, *)
(* the Sampler, the Epsilon base class and the transitions it calls.  A    *)
(* population is kept as the set of its models, which is the index of its  *)
(* model probabilities.                                                    *)

RunGens == 0..MaxRunGen
RunModels == 0..MaxRunModel
EpsVals == 1..MaxEps

\* population_strategy.nr_particles
nr_particles == MaxParticles

\* History.PRE_TIME, the generation of the calibration sample
PRE_TIME == 0 - 1

\* history.max_t
max_t(stored) ==
    IF stored = <<>> THEN PRE_TIME
    ELSE SetMax({stored[i].t : i \in DOMAIN stored})

\* history.n_populations
n_populations(stored) == Len(stored)

\* history.append_population(t, current_eps, population, ..): of what is
\* stored, the generation and the models of its particles are read again
append_population(stored, t, eps_t, population) ==
    Append(stored, [t |-> t, population |-> population])

\* history.get_model_probabilities(t): the generation read and the models
\* with a particle in it, none for PRE_TIME
get_model_probabilities(stored, t) ==
    LET S == {i \in DOMAIN stored : stored[i].t = t}
    IN  [t |-> t,
         m |-> IF S = {} THEN {} ELSE stored[SetMax(S)].population]

\* history.nr_of_models_alive()
nr_of_models_alive(stored) ==
    Cardinality(get_model_probabilities(stored, max_t(stored)).m)

\* the positional arguments run() passes to the hooks of eps and acceptor
eps_initialize_args == 2
acceptor_initialize_args == 5
eps_update_args == 2
acceptor_update_args == 4

\* the positional parameters the hooks declare, self aside
Temperature_sig == [initialize |-> 3, update |-> 3]
Epsilon_sig == [initialize |-> 2, update |-> 2]
Acceptor_sig == [initialize |-> 4, update |-> 3]

\* Acceptor and its subclasses UniformAcceptor, StochasticAcceptor and
\* SimpleFunctionAcceptor, or a subclass of the caller's whose initialize
\* declares what run() passes
AcceptorSigs ==
    {Acceptor_sig}
    \cup {[initialize |-> acceptor_initialize_args, update |-> u] :
            u \in {Acceptor_sig.update, acceptor_update_args}}

EpsSigs == {Temperature_sig, Epsilon_sig}

NoException == [kind |-> "", t |-> 0]
Exception(kind, t) == [kind |-> kind, t |-> t]

\* the distance or the acceptor calibrates for t in the hook named
calibrated(rec, t, hook) == (t :> hook) @@ rec

\* _initialize_dist_eps_acc(t): the hooks in order, each one left undone by
\* the TypeError of a call it cannot take; v is the value eps computes
_initialize_dist_eps_acc(es, as, dr, er, ar, t, v) ==
    LET dist_done == calibrated(dr, t, "initialize")
    IN  IF es.initialize # eps_initialize_args
        THEN [exception |-> Exception("TypeError: eps.initialize", t),
              dist_rec |-> dist_done, eps_rec |-> er, acc_rec |-> ar]
        ELSE IF as.initialize # acceptor_initialize_args
        THEN [exception |-> Exception("TypeError: acceptor.initialize", t),
              dist_rec |-> dist_done, eps_rec |-> (t :> v) @@ er,
              acc_rec |-> ar]
        ELSE [exception |-> NoException,
              dist_rec |-> dist_done, eps_rec |-> (t :> v) @@ er,
              acc_rec |-> calibrated(ar, t, "initialize")]

\* _get_initial_population(t), which the initialize of a threshold calls
\* through get_initial_weighted_distances
_get_initial_population(cached, stored) ==
    IF ~IsNone(cached) THEN cached
    ELSE IF n_populations(stored) > 0 THEN Some("history")
    ELSE Some("prior")

\* a run() that starts over at generation 0
run_t0_zero(stored) == 0

\* t0 = self.history.max_t + 1
run_t0(stored) == max_t(stored) + 1

\* the model probabilities of the generation before the latest
closure_generation_previous(stored) == max_t(stored) - 1

\* the generation simulate_one caches the model probabilities of
closure_generation(stored) == max_t(stored)

\* _fit_transitions(t): no fit for t = 0, else to the population of t - 1
_fit_transitions(fit, t) == IF t = 0 THEN fit ELSE Some(t - 1)

\* _create_simulate_function(t): what the closure captures by value
_create_simulate_function(stored, t) ==
    [t |-> t,
     model_probabilities |->
         get_model_probabilities(stored, closure_generation(stored))]

EmptySample == [accepted |-> 0, nr_evaluations |-> 0]

\* the models a sample of n accepted particles can hold: any model for
\* t = 0, where m is drawn from the model prior, else the models alive in
\* the cached model probabilities
Populations(cl, n) ==
    LET from == IF cl.t = 0 THEN RunModels ELSE cl.model_probabilities.m
    IN  {P \in SUBSET from : P # {} /\ Cardinality(P) <= n}

\* the values the invocations of a generation have read so far
NothingObserved == [model_probabilities |-> {}, eps |-> {}, acceptor |-> {}]

\* the arguments and locals of run() and what the Sampler held are gone
\* when run() ends
Ended ==
    /\ minimum_epsilon' = 0
    /\ run_max_nr_populations' = np_inf
    /\ min_acceptance_rate' = 0
    /\ r_t0' = 0
    /\ r_t' = 0
    /\ sampler' = "idle"
    /\ current_eps' = None
    /\ closure' = None
    /\ sample' = EmptySample
    /\ inflight' = 0
    /\ observed' = NothingObserved

\* an exception leaves run()
Leave(exception) ==
    /\ r_pc' = "raised"
    /\ r_exc' = exception
    /\ Ended

\* history.done() and return
Return ==
    /\ r_pc' = "returned"
    /\ r_exc' = NoException
    /\ history_done' = TRUE
    /\ Ended

\* the loop body for t up to the call of the Sampler, the epsilons being er
\* and the database stored
SubmitGeneration(t, er, stored) ==
    IF t \notin DOMAIN er
    THEN /\ Leave(Exception("KeyError: eps", t))
         /\ UNCHANGED fitted
    ELSE /\ r_t' = t
         /\ current_eps' = Some(er[t])
         /\ fitted' = _fit_transitions(fitted, t)
         /\ closure' = Some(_create_simulate_function(stored, t))
         /\ sampler' = "running"
         /\ sample' = EmptySample
         /\ inflight' = 0
         /\ observed' = NothingObserved
         /\ r_pc' = "sampling"
         /\ r_exc' = NoException

RunInit ==
    /\ eps_sig \in EpsSigs
    /\ acceptor_sig \in AcceptorSigs
    /\ stop_if_only_single_model_alive \in BOOLEAN
    /\ minimum_epsilon = 0
    /\ run_max_nr_populations = np_inf
    /\ min_acceptance_rate = 0
    /\ history = None
    /\ db = <<>>
    /\ history_done = FALSE
    /\ initial_population = None
    /\ dist_rec = EmptyDict
    /\ eps_rec = EmptyDict
    /\ acc_rec = EmptyDict
    /\ fitted = None
    /\ r_pc = "idle"
    /\ r_exc = NoException
    /\ r_t0 = 0
    /\ r_t = 0
    /\ current_eps = None
    /\ closure = None
    /\ sampler = "idle"
    /\ sample = EmptySample
    /\ inflight = 0
    /\ observed = NothingObserved

RunIdle ==
    /\ RunInit
    /\ eps_sig = Epsilon_sig
    /\ acceptor_sig = Acceptor_sig
    /\ stop_if_only_single_model_alive = FALSE

\* new(db, observed_sum_stat): a new run in an empty database
New ==
    /\ r_pc = "idle"
    /\ IsNone(history)
    /\ db = <<>>
    /\ history' = Some("History")
    /\ UNCHANGED <<confvars, compvars, smplvars, minimum_epsilon,
                   run_max_nr_populations, min_acceptance_rate, db,
                   history_done, initial_population, r_pc, r_exc, r_t0, r_t,
                   current_eps>>
    /\ UNCHANGED <<uvars, tvars, svars, gvars, evars, cvars, nvars, kvars>>

\* load(db, abc_id): the run the database holds
load ==
    /\ r_pc = "idle"
    /\ IsNone(history)
    /\ db # <<>>
    /\ history' = Some("History")
    /\ UNCHANGED <<confvars, compvars, smplvars, minimum_epsilon,
                   run_max_nr_populations, min_acceptance_rate, db,
                   history_done, initial_population, r_pc, r_exc, r_t0, r_t,
                   current_eps>>
    /\ UNCHANGED <<uvars, tvars, svars, gvars, evars, cvars, nvars, kvars>>

\* __init__: a new ABCSMC object, of the same configuration, after a run()
\* has ended; the database is all that is kept (r_exc stays as the record
\* of how the last run() ended)
Construct ==
    /\ r_pc \in {"returned", "raised"}
    /\ db # <<>>
    /\ history' = None
    /\ initial_population' = None
    /\ dist_rec' = EmptyDict
    /\ eps_rec' = EmptyDict
    /\ acc_rec' = EmptyDict
    /\ fitted' = None
    /\ r_pc' = "idle"
    /\ UNCHANGED <<confvars, smplvars, current_eps, minimum_epsilon,
                   run_max_nr_populations, min_acceptance_rate, db,
                   history_done, r_exc, r_t0, r_t>>
    /\ UNCHANGED <<uvars, tvars, svars, gvars, evars, cvars, nvars, kvars>>

\* run(minimum_epsilon, max_nr_populations, min_acceptance_rate) up to the
\* first call of the Sampler
RunCall ==
    /\ r_pc # "sampling"
    /\ ~IsNone(history)
    /\ run_t0(db) \in RunGens
    /\ \E me \in 0..MaxEps, N \in (1..MaxRunPop) \cup {np_inf},
          mar \in 0..1, v \in EpsVals :
        LET init == _initialize_dist_eps_acc(eps_sig, acceptor_sig, dist_rec,
                                             eps_rec, acc_rec,
                                             max_t(db) + 1, v)
            t0 == run_t0(db)
        IN  /\ initial_population' =
                  IF eps_sig.initialize = eps_initialize_args
                  THEN _get_initial_population(initial_population, db)
                  ELSE initial_population
            /\ dist_rec' = init.dist_rec
            /\ eps_rec' = init.eps_rec
            /\ acc_rec' = init.acc_rec
            /\ IF init.exception # NoException
               THEN /\ Leave(init.exception)
                    /\ UNCHANGED <<history_done, fitted>>
               ELSE /\ history_done' = FALSE
                    /\ IF N = np_inf
                       THEN \* range(t0, t_max) of a float
                            /\ Leave(Exception("TypeError: range", t0))
                            /\ UNCHANGED fitted
                       ELSE /\ minimum_epsilon' = me
                            /\ run_max_nr_populations' = N
                            /\ min_acceptance_rate' = mar
                            /\ r_t0' = t0
                            /\ SubmitGeneration(t0, init.eps_rec, db)
    /\ UNCHANGED <<confvars, history, db>>
    /\ UNCHANGED <<uvars, tvars, svars, gvars, evars, cvars, nvars, kvars>>

\* sample_until_n_accepted returns: n particles are accepted and no
\* invocation is under way
sampler_returned(smp, running) ==
    smp.accepted >= nr_particles /\ running = 0

\* simulate_one, first half: _generate_valid_proposal reads the cached m, p
Propose ==
    /\ sampler = "running"
    /\ sample.accepted < nr_particles
    /\ inflight < MaxInflight
    /\ sample.nr_evaluations + inflight < MaxEvals
    /\ inflight' = inflight + 1
    /\ observed' = [observed EXCEPT !.model_probabilities =
                        @ \cup {Get(closure).model_probabilities}]
    /\ UNCHANGED <<confvars, compvars, closure, sampler, sample,
                   minimum_epsilon, run_max_nr_populations,
                   min_acceptance_rate, history, db, history_done,
                   initial_population, r_pc, r_exc, r_t0, r_t, current_eps>>
    /\ UNCHANGED <<uvars, tvars, svars, gvars, evars, cvars, nvars, kvars>>

\* an invocation whose acceptor call recalibrates the acceptor for t
Evaluate_recalibrates ==
    /\ sampler = "running"
    /\ inflight > 0
    /\ Get(closure).t \in DOMAIN eps_rec
    /\ Get(closure).t \in DOMAIN acc_rec
    /\ \E accepted \in BOOLEAN :
        sample' =
            [accepted |-> sample.accepted + (IF accepted THEN 1 ELSE 0),
             nr_evaluations |-> sample.nr_evaluations + 1]
    /\ inflight' = inflight - 1
    /\ observed' = [observed EXCEPT
                       !.eps = @ \cup {eps_rec[Get(closure).t]},
                       !.acceptor = @ \cup {acc_rec[Get(closure).t]}]
    /\ acc_rec' = calibrated(acc_rec, Get(closure).t, "update")
    /\ UNCHANGED <<confvars, dist_rec, eps_rec, fitted, closure, sampler,
                   minimum_epsilon, run_max_nr_populations,
                   min_acceptance_rate, history, db, history_done,
                   initial_population, r_pc, r_exc, r_t0, r_t, current_eps>>
    /\ UNCHANGED <<uvars, tvars, svars, gvars, evars, cvars, nvars, kvars>>

\* simulate_one, second half: _evaluate_proposal; the acceptor reads eps(t)
\* and its own calibration for t, and the Sampler takes the particle
Evaluate ==
    /\ sampler = "running"
    /\ inflight > 0
    /\ Get(closure).t \in DOMAIN eps_rec
    /\ Get(closure).t \in DOMAIN acc_rec
    /\ \E accepted \in BOOLEAN :
        sample' =
            [accepted |-> sample.accepted + (IF accepted THEN 1 ELSE 0),
             nr_evaluations |-> sample.nr_evaluations + 1]
    /\ inflight' = inflight - 1
    /\ observed' = [observed EXCEPT
                       !.eps = @ \cup {eps_rec[Get(closure).t]},
                       !.acceptor = @ \cup {acc_rec[Get(closure).t]}]
    /\ UNCHANGED <<confvars, compvars, closure, sampler,
                   minimum_epsilon, run_max_nr_populations,
                   min_acceptance_rate, history, db, history_done,
                   initial_population, r_pc, r_exc, r_t0, r_t, current_eps>>
    /\ UNCHANGED <<uvars, tvars, svars, gvars, evars, cvars, nvars, kvars>>

\* a run() that stores what the Sampler had accepted before it raises
SamplerRaises_persists ==
    /\ r_pc = "sampling"
    /\ sampler = "running"
    /\ Leave(Exception("Sampler", r_t))
    /\ db' = append_population(db, r_t, Get(current_eps), {})
    /\ UNCHANGED <<confvars, compvars, history, history_done,
                   initial_population>>
    /\ UNCHANGED <<uvars, tvars, svars, gvars, evars, cvars, nvars, kvars>>

\* the Sampler raises: nothing in run() catches it
SamplerRaises ==
    /\ r_pc = "sampling"
    /\ sampler = "running"
    /\ Leave(Exception("Sampler", r_t))
    /\ UNCHANGED <<confvars, compvars, history, db, history_done,
                   initial_population>>
    /\ UNCHANGED <<uvars, tvars, svars, gvars, evars, cvars, nvars, kvars>>

\* the early termination conditions with "<" for the threshold
stops_lt(ce, me, single, alive, pop_size, nr_evaluations, mar) ==
    \/ ce < me
    \/ (single /\ alive <= 1)
    \/ pop_size < mar * nr_evaluations

\* "check early termination conditions"; acceptance_rate is
\* pop_size / nr_evaluations
stops(ce, me, single, alive, pop_size, nr_evaluations, mar) ==
    \/ ce <= me
    \/ (single /\ alive <= 1)
    \/ pop_size < mar * nr_evaluations

\* what an exception on the way leaves as it was
LeaveKeeps == UNCHANGED <<fitted, history_done>>

\* a loop that updates the distance and the threshold for t + 1 before it
\* appends the population of t
Continue_updates_first ==
    /\ r_pc = "sampling"
    /\ sampler = "running"
    /\ sampler_returned(sample, inflight)
    /\ \E persisted \in BOOLEAN, v \in EpsVals,
          population \in Populations(Get(closure), sample.accepted) :
        LET t == r_t
            stored == append_population(db, t, Get(current_eps), population)
            pop_size == sample.accepted
            nr_evaluations == sample.nr_evaluations
            dr == calibrated(dist_rec, t + 1, "update")
            er == ((t + 1) :> v) @@ eps_rec
        IN  IF ~persisted
            THEN /\ Leave(Exception("History", t))
                 /\ LeaveKeeps
                 /\ dist_rec' = dr
                 /\ eps_rec' = er
                 /\ UNCHANGED <<db, acc_rec>>
            ELSE
            /\ db' = stored
            /\ IF nr_evaluations = 0
               THEN /\ Leave(Exception("ZeroDivisionError", t))
                    /\ LeaveKeeps
                    /\ UNCHANGED <<dist_rec, eps_rec, acc_rec>>
               ELSE IF eps_sig.update # eps_update_args
               THEN /\ Leave(Exception("TypeError: eps.update", t))
                    /\ LeaveKeeps
                    /\ dist_rec' = dr
                    /\ UNCHANGED <<eps_rec, acc_rec>>
               ELSE IF acceptor_sig.update # acceptor_update_args
               THEN /\ Leave(Exception("TypeError: acceptor.update", t))
                    /\ LeaveKeeps
                    /\ dist_rec' = dr
                    /\ eps_rec' = er
                    /\ UNCHANGED acc_rec
               ELSE
               /\ dist_rec' = dr
               /\ eps_rec' = er
               /\ acc_rec' = calibrated(acc_rec, t + 1, "update")
               /\ IF \/ stops(Get(current_eps), minimum_epsilon,
                              stop_if_only_single_model_alive,
                              nr_of_models_alive(stored), pop_size,
                              nr_evaluations, min_acceptance_rate)
                     \/ t + 1 >= r_t0 + run_max_nr_populations
                  THEN /\ Return
                       /\ UNCHANGED fitted
                  ELSE /\ t + 1 \in RunGens
                       /\ SubmitGeneration(t + 1, er, stored)
                       /\ UNCHANGED <<minimum_epsilon, run_max_nr_populations,
                                      min_acceptance_rate, r_t0, history_done>>
    /\ UNCHANGED <<confvars, history, initial_population>>
    /\ UNCHANGED <<uvars, tvars, svars, gvars, evars, cvars, nvars, kvars>>

\* run() from the return of the Sampler for generation t: the population is
\* appended, the hooks are updated for t + 1, and the loop either ends or
\* reaches the call of the Sampler for t + 1
Continue ==
    /\ r_pc = "sampling"
    /\ sampler = "running"
    /\ sampler_returned(sample, inflight)
    /\ \E persisted \in BOOLEAN, v \in EpsVals,
          population \in Populations(Get(closure), sample.accepted) :
        LET t == r_t
            stored == append_population(db, t, Get(current_eps), population)
            pop_size == sample.accepted
            nr_evaluations == sample.nr_evaluations
            dr == calibrated(dist_rec, t + 1, "update")
            er == ((t + 1) :> v) @@ eps_rec
        IN  IF ~persisted
            THEN /\ Leave(Exception("History", t))
                 /\ LeaveKeeps
                 /\ UNCHANGED <<db, dist_rec, eps_rec, acc_rec>>
            ELSE
            /\ db' = stored
            /\ IF nr_evaluations = 0
               THEN /\ Leave(Exception("ZeroDivisionError", t))
                    /\ LeaveKeeps
                    /\ UNCHANGED <<dist_rec, eps_rec, acc_rec>>
               ELSE IF eps_sig.update # eps_update_args
               THEN /\ Leave(Exception("TypeError: eps.update", t))
                    /\ LeaveKeeps
                    /\ dist_rec' = dr
                    /\ UNCHANGED <<eps_rec, acc_rec>>
               ELSE IF acceptor_sig.update # acceptor_update_args
               THEN /\ Leave(Exception("TypeError: acceptor.update", t))
                    /\ LeaveKeeps
                    /\ dist_rec' = dr
                    /\ eps_rec' = er
                    /\ UNCHANGED acc_rec
               ELSE
               /\ dist_rec' = dr
               /\ eps_rec' = er
               /\ acc_rec' = calibrated(acc_rec, t + 1, "update")
               /\ IF \/ stops(Get(current_eps), minimum_epsilon,
                              stop_if_only_single_model_alive,
                              nr_of_models_alive(stored), pop_size,
                              nr_evaluations, min_acceptance_rate)
                     \/ t + 1 >= r_t0 + run_max_nr_populations
                  THEN /\ Return
                       /\ UNCHANGED fitted
                  ELSE /\ t + 1 \in RunGens
                       /\ SubmitGeneration(t + 1, er, stored)
                       /\ UNCHANGED <<minimum_epsilon, run_max_nr_populations,
                                      min_acceptance_rate, r_t0, history_done>>
    /\ UNCHANGED <<confvars, history, initial_population>>
    /\ UNCHANGED <<uvars, tvars, svars, gvars, evars, cvars, nvars, kvars>>

-----------------------------------------------------------------------------
(* The constructors: ABCSMC.__init__, smc.py 153-227, and                  *)
(* StochasticKernel.__init__ with check_ret_scale, kernel.py 41-68.        *)

\* an argument models or parameter_priors: one object, or a list of len objects
CtorArgs ==
    {[is_list |-> FALSE, len |-> 1]} \cup
    {[is_list |-> TRUE, len |-> n] : n \in 0..MaxCtor}

\* 'if not isinstance(x, list): x = [x]', then len(x)
listed_len(x) == IF x.is_list THEN x.len ELSE 1

\* the condition of the sanity check of the two lists
sanity_check_fewer(nr_models, nr_priors) == nr_models < nr_priors

sanity_check(nr_models, nr_priors) == nr_models # nr_priors

\* the attributes __init__ sets before the sanity check, and after it
ListAttributes == {"models", "parameter_priors"}
Components ==
    {"distance_function", "summary_statistics", "model_prior",
     "model_perturbation_kernel", "transitions", "eps",
     "population_strategy", "sampler", "acceptor"}
RunAttributes ==
    {"stop_if_only_single_model_alive",
     "max_number_particles_for_distance_update", "x_0", "history",
     "_initial_population", "minimum_epsilon", "max_nr_populations",
     "min_acceptance_rate"}

\* what a constructor call leaves: attrs is what was set on self, object
\* what the caller gets
Constructed(args, attrs) ==
    [called |-> TRUE, args |-> Some(args), attrs |-> attrs, raised |-> None,
     object |-> Some(attrs)]
CtorRaised(args, attrs, exc) ==
    [called |-> TRUE, args |-> Some(args), attrs |-> attrs, raised |-> Some(exc),
     object |-> None]
NotConstructed ==
    [called |-> FALSE, args |-> None, attrs |-> {}, raised |-> None,
     object |-> None]

ABCSMC__init__(models, priors) ==
    LET args == [models |-> models, parameter_priors |-> priors]
    IN  IF sanity_check(listed_len(models), listed_len(priors))
        THEN CtorRaised(args, ListAttributes, "AssertionError")
        ELSE Constructed(args,
                         ListAttributes \cup Components \cup RunAttributes)

\* the tags a caller may pass as ret_scale: the two of RET_SCALES and others
ScaleArgs == RET_SCALES \cup {"SCALE_LOG", "lin"}

check_ret_scale(scale) == scale \notin RET_SCALES

StochasticKernel__init__(scale, keys, pmax) ==
    LET args == [ret_scale |-> scale, keys |-> keys, pdf_max |-> pmax]
    IN  IF check_ret_scale(scale)
        THEN CtorRaised(args, {}, "ValueError")
        ELSE Constructed(args, {"ret_scale", "keys", "pdf_max"})

CtorInit ==
    /\ abcsmc = NotConstructed
    /\ kernel = NotConstructed

ABCSMCInit ==
    /\ \E models \in CtorArgs, priors \in CtorArgs :
         abcsmc' = ABCSMC__init__(models, priors)
    /\ UNCHANGED <<kernel, dvars, qvars, fvars, yvars>>
    /\ UNCHANGED <<uvars, tvars, svars, gvars, evars, cvars, nvars, rvars>>

StochasticKernelInit ==
    /\ \E scale \in ScaleArgs, keys \in BOOLEAN, pmax \in BOOLEAN :
         kernel' = StochasticKernel__init__(scale, keys, pmax)
    /\ UNCHANGED <<abcsmc, dvars, qvars, fvars, yvars>>
    /\ UNCHANGED <<uvars, tvars, svars, gvars, evars, cvars, nvars, rvars>>

CtorIdle == CtorInit

-----------------------------------------------------------------------------
(* The population of generation t from the return of the Sampler to the    *)
(* updates for t + 1, smc.py 819-860, with the Population it calls.        *)

RecalGens == 0..MaxRecalGen
Stats == 0..MaxStat

\* distance_function(x, x_0, g, par): the distance of x under the metric of
\* generation g
distance_function(x, g) == [metric |-> g, x |-> x]

\* a particle the Sampler accepted in generation t
Particle(x, t) == [x |-> x, distance |-> distance_function(x, t)]

\* the populations of nr_particles accepted particles
Sampled(t) ==
    {[i \in 1..nr_particles |-> Particle(xs[i], t)] :
        xs \in [1..nr_particles -> Stats]}

\* a recomputation that stops after the first particle
update_distances_first(particles, g) ==
    [i \in DOMAIN particles |->
        IF i = 1
        THEN [particles[i] EXCEPT !.distance = distance_function(@.x, g)]
        ELSE particles[i]]

\* population.update_distances(distance_to_ground_truth), the metric being
\* that of generation g
update_distances(particles, g) ==
    [i \in DOMAIN particles |->
        [particles[i] EXCEPT !.distance = distance_function(@.x, g)]]

\* population.get_weighted_distances(): the distances, particle by particle
get_weighted_distances(particles) ==
    [i \in DOMAIN particles |-> particles[i].distance]

\* lines 841-852: the population after distance_function.update(t + 1, ..)
\* has returned changed
recalibrate(particles, changed, t) ==
    IF changed THEN update_distances(particles, t + 1) ELSE particles

RecalInit ==
    /\ pop_t = 0
    /\ pop_particles = <<>>
    /\ pop_stored = <<>>
    /\ df_updated = None
    /\ pop_read = None
    /\ pop_pc = "idle"

\* the Sampler returns the population of generation t, and
\* history.append_population stores it
SamplerReturns ==
    /\ pop_pc \in {"idle", "updated"}
    /\ \E t \in RecalGens :
         /\ pop_t' = t
         /\ \E particles \in Sampled(t) :
              /\ pop_particles' = particles
              /\ pop_stored' = particles
    /\ df_updated' = None
    /\ pop_read' = None
    /\ pop_pc' = "appended"
    /\ UNCHANGED <<ctorvars, qvars, fvars, yvars>>
    /\ UNCHANGED <<uvars, tvars, svars, gvars, evars, cvars, nvars, rvars>>

\* the distance is updated for t + 1 and the weighted distances are read for
\* eps.update and acceptor.update
UpdateDistances ==
    /\ pop_pc = "appended"
    /\ \E changed \in BOOLEAN :
         LET population == recalibrate(pop_particles, changed, pop_t)
         IN  /\ df_updated' = Some(changed)
             /\ pop_particles' = population
             /\ pop_read' = Some([eps |-> get_weighted_distances(population),
                                  acceptor |->
                                      get_weighted_distances(population)])
    /\ pop_pc' = "updated"
    /\ UNCHANGED <<pop_t, pop_stored>>
    /\ UNCHANGED <<ctorvars, qvars, fvars, yvars>>
    /\ UNCHANGED <<uvars, tvars, svars, gvars, evars, cvars, nvars, rvars>>

RecalIdle == RecalInit

-----------------------------------------------------------------------------
(* The calibration sample: _get_initial_population, _sample_from_prior and *)
(* the simulate_one of _create_simulate_from_prior_function, smc.py        *)
(* 411-498, called through get_initial_sum_stats and                       *)
(* get_initial_weighted_distances by the initialize hooks.                 *)

\* what simulate_one returns for the model m and the parameter theta drawn
\* from the priors
prior_particle(m, theta) ==
    [m |-> m, parameter |-> theta, weight |-> Frac(1, 1),
     accepted_sum_stats |-> <<"sum_stats">>,
     accepted_distances |-> <<np_inf>>,
     rejected_sum_stats |-> <<>>, rejected_distances |-> <<>>,
     accepted |-> TRUE]

\* the populations _sample_from_prior can return
PriorSamples ==
    {[i \in 1..nr_particles |-> prior_particle(ms[i], ths[i])] :
        ms \in [1..nr_particles -> RunModels],
        ths \in [1..nr_particles -> Thetas]}

\* a _get_initial_population that does not look at the cache
samples_prior_uncached(cached, stored) == n_populations(stored) = 0

\* whether _get_initial_population draws the calibration sample
samples_prior(cached, stored) == IsNone(cached) /\ n_populations(stored) = 0

CalInit ==
    /\ cal_db = <<>>
    /\ cal_nr_samples = EmptyDict
    /\ cal_cached = None
    /\ cal_population = None
    /\ cal_draws = 0
    /\ cal_calls = 0

\* a hook calls get_initial_sum_stats or get_initial_weighted_distances,
\* which call _get_initial_population
AccessorCall ==
    /\ cal_calls < MaxCalCalls
    /\ cal_calls' = cal_calls + 1
    /\ cal_cached' = _get_initial_population(cal_cached, cal_db)
    /\ IF samples_prior(cal_cached, cal_db)
       THEN \E population \in PriorSamples, n \in nr_particles..MaxEvals :
              /\ cal_population' = Some(population)
              /\ cal_nr_samples' = (PRE_TIME :> n) @@ cal_nr_samples
              /\ cal_draws' = cal_draws + 1
       ELSE /\ cal_population' =
                  IF IsNone(cal_cached)
                  THEN Some(cal_db[Len(cal_db)].population)
                  ELSE cal_population
            /\ UNCHANGED <<cal_nr_samples, cal_draws>>
    /\ UNCHANGED cal_db
    /\ UNCHANGED <<ctorvars, dvars, fvars, yvars>>
    /\ UNCHANGED <<uvars, tvars, svars, gvars, evars, cvars, nvars, rvars>>

\* run() appends a generation to the History, here one with particles of
\* every model
CalAppend ==
    /\ Len(cal_db) \in RunGens
    /\ cal_db' = append_population(cal_db, Len(cal_db), 0, RunModels)
    /\ UNCHANGED <<cal_nr_samples, cal_cached, cal_population, cal_draws,
                   cal_calls>>
    /\ UNCHANGED <<ctorvars, dvars, fvars, yvars>>
    /\ UNCHANGED <<uvars, tvars, svars, gvars, evars, cvars, nvars, rvars>>

\* a new ABCSMC object on the same database: __init__ and load
CalConstruct ==
    /\ cal_calls > 0
    /\ cal_cached' = None
    /\ cal_population' = None
    /\ cal_draws' = 0
    /\ cal_calls' = 0
    /\ UNCHANGED <<cal_db, cal_nr_samples>>
    /\ UNCHANGED <<ctorvars, dvars, fvars, yvars>>
    /\ UNCHANGED <<uvars, tvars, svars, gvars, evars, cvars, nvars, rvars>>

CalIdle == CalInit

-----------------------------------------------------------------------------
(* The transition kernels in _adapt_population_size and _fit_transitions,  *)
(* smc.py 877-915.  A kernel is kept as what it was last fit to.           *)

FitGens == 0..MaxFitGen

\* a kernel fit by run() to the particles of a model in generation g, and
\* one the population strategy has fit again
FitTo(g) == [by |-> "run", t |-> g]
StrategyFit == [by |-> "strategy", t |-> 0]

NeverFit == [m \in RunModels |-> None]

\* population_strategy.adapt_population_size(transitions, w): a strategy
\* may fit the kernels of the models in refit
adapt_population_size(trs, refit) ==
    [m \in DOMAIN trs |-> IF m \in refit THEN Some(StrategyFit) ELSE trs[m]]

\* an adaptation that hands the strategy self.transitions itself
_adapt_population_size_shared(trs, t, refit) ==
    IF t = 0
    THEN [transitions |-> trs, copied |-> None]
    ELSE [transitions |-> adapt_population_size(trs, refit),
          copied |-> Some(adapt_population_size(trs, refit))]

\* _adapt_population_size(t): self.transitions and the deep copy afterwards
_adapt_population_size(trs, t, refit) ==
    IF t = 0
    THEN [transitions |-> trs, copied |-> None]
    ELSE [transitions |-> trs,
          copied |-> Some(adapt_population_size(trs, refit))]

\* _fit_transitions(t) kernel by kernel, alive being
\* history.alive_models(t - 1)
fit_alive(trs, t, alive) ==
    IF t = 0 THEN trs
    ELSE [m \in DOMAIN trs |->
            IF m \in alive THEN Some(FitTo(t - 1)) ELSE trs[m]]

NoFitCall == [method |-> "", t |-> 0, alive |-> {}]

FitInit ==
    /\ transitions = NeverFit
    /\ copied_transitions = None
    /\ fit_call = NoFitCall

FitTransitions ==
    /\ \E t \in FitGens, alive \in (SUBSET RunModels) \ {{}} :
         /\ transitions' = fit_alive(transitions, t, alive)
         /\ fit_call' = [method |-> "_fit_transitions", t |-> t,
                         alive |-> alive]
    /\ UNCHANGED copied_transitions
    /\ UNCHANGED <<ctorvars, dvars, qvars, yvars>>
    /\ UNCHANGED <<uvars, tvars, svars, gvars, evars, cvars, nvars, rvars>>

AdaptPopulationSize ==
    /\ \E t \in FitGens, refit \in SUBSET RunModels :
         LET adapted == _adapt_population_size(transitions, t, refit)
         IN  /\ transitions' = adapted.transitions
             /\ copied_transitions' =
                    IF t = 0 THEN copied_transitions ELSE adapted.copied
             /\ fit_call' = [method |-> "_adapt_population_size", t |-> t,
                             alive |-> {}]
    /\ UNCHANGED <<ctorvars, dvars, qvars, yvars>>
    /\ UNCHANGED <<uvars, tvars, svars, gvars, evars, cvars, nvars, rvars>>

FitIdle == FitInit

-----------------------------------------------------------------------------
(* The keys of a StochasticKernel, kernel.py 41-71.  A key is a number,    *)
(* the order of the numbers being the order of the strings.                *)

StatKeys == 1..MaxKey

\* the lists of distinct keys: a keys argument, the keys of a dict in
\* insertion order
KeyLists ==
    {l \in UNION {[1..n -> StatKeys] : n \in 0..MaxKey} :
        \A i, j \in DOMAIN l : i # j => l[i] # l[j]}

\* list.insert at the place that keeps a sorted list sorted
insort(l, k) ==
    LET before == SelectSeq(l, LAMBDA e : e <= k)
        after == SelectSeq(l, LAMBDA e : e > k)
    IN  before \o <<k>> \o after

RECURSIVE sorted(_)
\* sorted(x) of a dict x: the list of its keys in ascending order
sorted(x) ==
    IF x = <<>> THEN <<>>
    ELSE insort(sorted(SubSeq(x, 1, Len(x) - 1)), x[Len(x)])

\* an initialize that takes the keys of obs whatever self.keys is
initialize_keys_always(keys, obs) ==
    IF IsNone(obs)
    THEN [keys |-> keys, raised |-> TRUE]
    ELSE [keys |-> Some(sorted(Get(obs))), raised |-> FALSE]

\* StochasticKernel.initialize(t, get_sum_stats, x_0), obs being x_0:
\* self.keys afterwards; sorted(None) raises a TypeError
initialize_keys(keys, obs) ==
    IF ~IsNone(keys)
    THEN [keys |-> keys, raised |-> FALSE]
    ELSE IF IsNone(obs)
         THEN [keys |-> keys, raised |-> TRUE]
         ELSE [keys |-> Some(sorted(Get(obs))), raised |-> FALSE]

KeysInit ==
    /\ kernel_keys = None
    /\ keys_given = None
    /\ keys_x_0 = None
    /\ keys_raised = FALSE
    /\ keys_calls = 0

\* StochasticKernel(keys=keys)
KernelKeysConstruct ==
    /\ \E keys \in Opt(KeyLists) :
         /\ kernel_keys' = keys
         /\ keys_given' = keys
    /\ keys_x_0' = None
    /\ keys_raised' = FALSE
    /\ keys_calls' = 0
    /\ UNCHANGED <<ctorvars, dvars, qvars, fvars>>
    /\ UNCHANGED <<uvars, tvars, svars, gvars, evars, cvars, nvars, rvars>>

KernelInitialize ==
    /\ keys_calls < MaxKeyCalls
    /\ \E obs \in Opt(KeyLists) :
         LET after == initialize_keys(kernel_keys, obs)
         IN  /\ kernel_keys' = after.keys
             /\ keys_raised' = after.raised
             /\ keys_x_0' = obs
    /\ keys_calls' = keys_calls + 1
    /\ UNCHANGED keys_given
    /\ UNCHANGED <<ctorvars, dvars, qvars, fvars>>
    /\ UNCHANGED <<uvars, tvars, svars, gvars, evars, cvars, nvars, rvars>>

KeysIdle == KeysInit

-----------------------------------------------------------------------------
(* Specifications *)

OrchIdle == LookupIdle /\ NormIdle /\ RunIdle /\ CtorIdle /\ RecalIdle /\ CalIdle /\ FitIdle /\ KeysIdle

InitRun ==
    /\ RunInit /\ UniformIdle /\ TempIdle /\ StochIdle /\ GenIdle /\ EvalIdle
    /\ LookupIdle /\ NormIdle /\ CtorIdle /\ RecalIdle /\ CalIdle /\ FitIdle /\ KeysIdle
NextRun ==
    \/ New \/ load \/ Construct \/ RunCall
    \/ Propose \/ Evaluate \/ SamplerRaises \/ Continue
SpecRun == InitRun /\ [][NextRun]_vars

InitCtor ==
    /\ CtorInit /\ UniformIdle /\ TempIdle /\ StochIdle /\ GenIdle /\ EvalIdle
    /\ LookupIdle /\ NormIdle /\ RunIdle /\ RecalIdle /\ CalIdle /\ FitIdle /\ KeysIdle
NextCtor == ABCSMCInit \/ StochasticKernelInit
SpecCtor == InitCtor /\ [][NextCtor]_vars

InitRecal ==
    /\ RecalInit /\ UniformIdle /\ TempIdle /\ StochIdle /\ GenIdle /\ EvalIdle
    /\ LookupIdle /\ NormIdle /\ RunIdle /\ CtorIdle /\ CalIdle /\ FitIdle /\ KeysIdle
NextRecal == SamplerReturns \/ UpdateDistances
SpecRecal == InitRecal /\ [][NextRecal]_vars

InitCal ==
    /\ CalInit /\ UniformIdle /\ TempIdle /\ StochIdle /\ GenIdle /\ EvalIdle
    /\ LookupIdle /\ NormIdle /\ RunIdle /\ CtorIdle /\ RecalIdle /\ FitIdle /\ KeysIdle
NextCal == AccessorCall \/ CalAppend \/ CalConstruct
SpecCal == InitCal /\ [][NextCal]_vars

InitFit ==
    /\ FitInit /\ UniformIdle /\ TempIdle /\ StochIdle /\ GenIdle /\ EvalIdle
    /\ LookupIdle /\ NormIdle /\ RunIdle /\ CtorIdle /\ RecalIdle /\ CalIdle
    /\ KeysIdle
NextFit == FitTransitions \/ AdaptPopulationSize
SpecFit == InitFit /\ [][NextFit]_vars

InitKeys ==
    /\ KeysInit /\ UniformIdle /\ TempIdle /\ StochIdle /\ GenIdle /\ EvalIdle
    /\ LookupIdle /\ NormIdle /\ RunIdle /\ CtorIdle /\ RecalIdle /\ CalIdle
    /\ FitIdle
NextKeys == KernelKeysConstruct \/ KernelInitialize
SpecKeys == InitKeys /\ [][NextKeys]_vars

InitEval == EvalInit /\ EvalProposal /\ UniformIdle /\ TempIdle /\ StochIdle /\ OrchIdle
NextEval == EvaluateProposal
SpecEval == InitEval /\ [][NextEval]_vars

InitGen == GenInit /\ UniformIdle /\ TempIdle /\ StochIdle /\ EvalIdle /\ OrchIdle
NextGen == GenFromPrior \/ GenIteration
SpecGen == InitGen /\ [][NextGen]_vars
\* the function runs on, and its random choices are fair: an outcome that
\* every pass of the loop has a positive probability of is not missed for ever
\* The calls are those for t > 0 with the alive models among the first
\* MaxFairModel + 1; the priors of the extinct models, which the loop never
\* evaluates, are fixed.
InitGenFair ==
    /\ InitGen
    /\ g_t > 0
    /\ g_alive \subseteq 0..MaxFairModel
    /\ \A m \in Models \ g_alive :
          model_prior[m] = 1 /\ parameter_priors[m] = [th \in Thetas |-> 1]
NextGenFair == GenIteration
SpecGenFair ==
    /\ InitGenFair /\ [][NextGenFair]_vars
    /\ WF_vars(GenIteration) /\ WF_vars(GenReturns)

InitStoch == StochInit /\ UniformIdle /\ GenIdle /\ EvalIdle /\ OrchIdle
NextStoch == StochCall
SpecStoch == InitStoch /\ [][NextStoch]_vars

InitUniform == UniformInit /\ TempIdle /\ StochIdle /\ GenIdle /\ EvalIdle /\ OrchIdle
NextUniform == UniformCall
SpecUniform == InitUniform /\ [][NextUniform]_vars

InitLookup ==
    /\ LookupInit /\ UniformIdle /\ StochIdle /\ GenIdle /\ EvalIdle
    /\ NormIdle /\ RunIdle /\ CtorIdle /\ RecalIdle /\ CalIdle /\ FitIdle /\ KeysIdle

InitNorm ==
    /\ NormInit /\ UniformIdle /\ TempIdle /\ GenIdle /\ EvalIdle
    /\ LookupIdle /\ RunIdle /\ CtorIdle /\ RecalIdle /\ CalIdle /\ FitIdle /\ KeysIdle
NextNorm == NormInitialize \/ NormUpdate
SpecNorm == InitNorm /\ [][NextNorm]_vars
NextLookup == TempCall
SpecLookup == InitLookup /\ [][NextLookup]_vars

InitTemp == TempInit /\ UniformIdle /\ StochIdle /\ GenIdle /\ EvalIdle /\ OrchIdle
NextTemp == TempInitialize \/ TempUpdate
SpecTemp == InitTemp /\ [][NextTemp]_vars

-----------------------------------------------------------------------------
(* C1: in current-time mode, for every generation t with a recorded        *)
(* threshold and a distance that evaluates, the returned accept flag is    *)
(* exactly distance(t) <= eps(t); the values of the other generations play *)
(* no part.                                                                *)
UniformCurrentTime ==
    (u_res.called /\ ~use_complete_history
       /\ ~IsNone(thr[t_call]) /\ ~IsNone(dist[t_call]))
    => /\ ~u_res.raised
       /\ u_res.accept = (Get(dist[t_call]) <= Get(thr[t_call]))

\* an accepted call at t > 0 whose distance equals the threshold, with an
\* earlier generation that fails its comparison
UniformCurrentTimeWitness ==
    /\ u_res.called /\ ~use_complete_history /\ ~u_res.raised
    /\ t_call > 0
    /\ u_res.accept
    /\ Get(dist[t_call]) = Get(thr[t_call])
    /\ \E g \in 0..(t_call - 1) :
          ~Raises(dist, thr, g) /\ Get(dist[g]) > Get(thr[g])

(* C2: whenever the complete-history policy returns accept = True, the     *)
(* current-time policy returns accept = True on the same distance          *)
(* function, thresholds, inputs and generation.                            *)
HistoryImpliesCurrent ==
    (u_res.called /\ use_complete_history /\ ~u_res.raised /\ u_res.accept)
    => LET cur == accept_use_current_time(dist, thr, t_call)
       IN  ~cur.raised /\ cur.accept

\* the complete-history policy accepted at t > 0 although a re-evaluation
\* at an earlier generation raised
HistoryImpliesCurrentWitness ==
    /\ u_res.called /\ use_complete_history /\ ~u_res.raised /\ u_res.accept
    /\ t_call > 0
    /\ \E g \in 0..(t_call - 1) : Raises(dist, thr, g)

(* C3: the complete-history policy accepts exactly when the comparison at  *)
(* t holds and, at every earlier generation, the re-evaluation holds or    *)
(* raises; an exception at one earlier generation does not undo a failed   *)
(* comparison at another.                                                  *)
HistoryAcceptIff ==
    (u_res.called /\ use_complete_history /\ ~u_res.raised)
    => u_res.accept =
         ( /\ Get(dist[t_call]) <= Get(thr[t_call])
           /\ \A g \in 0..(t_call - 1) :
                 \/ Raises(dist, thr, g)
                 \/ Get(dist[g]) <= Get(thr[g]) )

\* a rejection caused by a failed comparison at an earlier generation that
\* is followed by a generation whose re-evaluation raises
HistoryAcceptIffWitness ==
    /\ u_res.called /\ use_complete_history /\ ~u_res.raised /\ ~u_res.accept
    /\ Get(dist[t_call]) <= Get(thr[t_call])
    /\ \E g \in 0..(t_call - 1), h \in 0..(t_call - 1) :
          /\ g < h
          /\ ~Raises(dist, thr, g) /\ Get(dist[g]) > Get(thr[g])
          /\ Raises(dist, thr, h)

-----------------------------------------------------------------------------
(* C4: the recorded temperatures are non-increasing in the generation      *)
(* index: temperature(t+1) <= temperature(t) for consecutive recorded      *)
(* generations, with any configured initial temperature.                   *)
TempNonIncreasing ==
    \A t \in DOMAIN temperatures :
        (t + 1) \in DOMAIN temperatures
            => temperatures[t + 1] <= temperatures[t]

(* C5: every recorded temperature is >= 1.0, except possibly the first     *)
(* recorded generation when its value is the configured initial            *)
(* temperature.                                                            *)
TempFloor ==
    \A t \in DOMAIN temperatures :
        \/ temperatures[t] >= One
        \/ /\ t = SetMin(DOMAIN temperatures)
           /\ ~IsNone(initial_temperature)
           /\ temperatures[t] = Get(initial_temperature)

\* the first generation holds an initial temperature below 1.0 and a later
\* generation was computed from the schemes with the minimum as aggregate
TempFloorWitness ==
    /\ Cardinality(DOMAIN temperatures) >= 3
    /\ temperatures[SetMin(DOMAIN temperatures)] < One
    /\ aggregate_fun = "min"
    /\ ~IsNone(max_nr_populations)
    /\ LastRecorded < Get(max_nr_populations) - 1

(* C6: the temperature recorded for the final generation (index            *)
(* max_nr_populations - 1), and for the last generation the run() call     *)
(* that initialized at t_init can sample (t_init + max_nr_populations - 1),*)
(* is exactly 1.0.                                                         *)
TempFinalOne ==
    ~IsNone(max_nr_populations) =>
        \A t \in DOMAIN temperatures :
            ( /\ t >= Get(t_init)
              /\ \/ t = Get(max_nr_populations) - 1
                 \/ t = Get(t_init) + Get(max_nr_populations) - 1 )
            => temperatures[t] = One

\* the final generation max_nr_populations - 1 > 0 is recorded after a
\* generation whose temperature is above 1.0, with an initial temperature
\* configured
TempFinalOneWitness ==
    /\ ~IsNone(max_nr_populations)
    /\ ~IsNone(initial_temperature)
    /\ Get(max_nr_populations) - 1 \in DOMAIN temperatures
    /\ Get(max_nr_populations) - 2 \in DOMAIN temperatures
    /\ Get(max_nr_populations) - 1 >= Get(t_init)
    /\ temperatures[Get(max_nr_populations) - 2] > One

-----------------------------------------------------------------------------
\* the call returned a result for a kernel value, constant and temperature
StochReturned == s_res.called /\ ~s_res.raised

\* the acceptance probability is exactly 0: a linear kernel value of 0, or a
\* log kernel value of -inf
ProbabilityZero ==
    IF ret_scale = RET_SCALE_LIN THEN s_pd = 0 ELSE s_pd = neg_inf

\* the binary logarithm of the rescaled density r, for a positive r
LogRatio ==
    IF ret_scale = RET_SCALE_LIN
    THEN Log2(s_pd) - Log2(pdf_norms[s_t])
    ELSE s_pd - pdf_norms[s_t]

(* C7: the returned weight is 0 if and only if the acceptance probability  *)
(* is exactly 0; otherwise it is >= 1: equal to 1 when the probability is  *)
(* in (0,1], equal to the probability r^(1/T) when it exceeds 1.           *)
StochWeight ==
    StochReturned =>
        /\ s_res.weight.zero <=> ProbabilityZero
        /\ ~ProbabilityZero =>
              /\ VGeq(s_res.weight, WOne)
              /\ LogRatio <= 0 => VEq(s_res.weight, WOne)
              /\ LogRatio > 0 =>
                    VEq(s_res.weight, WVal(LogRatio * One, temperatures[s_t]))

\* a positive acceptance probability below 1 at a temperature other than 1.0
StochWeightWitness ==
    /\ StochReturned
    /\ ~ProbabilityZero
    /\ LogRatio < 0
    /\ temperatures[s_t] # One
    /\ VEq(s_res.weight, WOne)

(* C8: accept iff r^(1/T) >= u, with r = pd / c for a linear-scale kernel  *)
(* and r = exp(pd - c) for a log-scale kernel; at T = 1 this is r >= u;    *)
(* the returned distance is the unscaled pd.  With T = temp/2 and          *)
(* u = 2^(-k/2), r^(1/T) >= u is r^4 >= 2^(-k*temp): in integers,          *)
(* pd^4 * 2^(k*temp) >= c^4 (linear), 4 * (pd - c) >= -k*temp (log).       *)
StochAcceptRule ==
    StochReturned =>
        LET temp == temperatures[s_t]
            c == pdf_norms[s_t]
            k == 0 - s_u.n
        IN  /\ s_res.distance = Some(s_pd)
            /\ s_res.accept <=>
                 \/ s_u.zero
                 \/ /\ ret_scale = RET_SCALE_LIN
                    /\ s_pd # 0
                    /\ s_pd * s_pd * s_pd * s_pd * Pow2(k * temp)
                          >= c * c * c * c
                 \/ /\ ret_scale = RET_SCALE_LOG
                    /\ s_pd # neg_inf
                    /\ 4 * (s_pd - c) >= 0 - k * temp
            /\ (temp = One /\ ~s_u.zero /\ ret_scale = RET_SCALE_LIN) =>
                 (s_res.accept <=> s_pd * s_pd * Pow2(k) >= c * c)
            /\ (temp = One /\ ~s_u.zero /\ ret_scale = RET_SCALE_LOG
                   /\ s_pd # neg_inf) =>
                 (s_res.accept <=> 2 * (s_pd - c) >= 0 - k)

\* a linear-scale kernel value below the constant, accepted against a
\* positive draw only because the temperature is above 1.0
StochAcceptRuleWitness ==
    /\ StochReturned
    /\ ret_scale = RET_SCALE_LIN
    /\ s_pd # 0 /\ s_pd < pdf_norms[s_t]
    /\ ~s_u.zero
    /\ temperatures[s_t] > One
    /\ s_res.accept
    /\ s_pd * s_pd * Pow2(0 - s_u.n) < pdf_norms[s_t] * pdf_norms[s_t]

-----------------------------------------------------------------------------
(* C10: for t > 0, the (model index, parameter) pair returned by           *)
(* _generate_valid_proposal has a model index of the alive set m and       *)
(* model_prior.pmf(m) * parameter_priors[m].pdf(theta) > 0; an extinct     *)
(* index is never returned, with several alive models or exactly one.      *)
ProposalValid ==
    (g_pc = "returned" /\ g_t > 0) =>
        /\ Get(m_ss) \in g_alive
        /\ model_prior[Get(m_ss)] * parameter_priors[Get(m_ss)][Get(theta_ss)] > 0

\* a pair is returned for t > 0 while some alive model has prior mass zero
\* and some model is extinct
ProposalValidWitness ==
    /\ g_pc = "returned" /\ g_t > 0
    /\ Cardinality(g_alive) > 1
    /\ g_alive # Models
    /\ \E m \in g_alive : model_prior[m] = 0
    /\ \E th \in Thetas : parameter_priors[Get(m_ss)][th] = 0

-----------------------------------------------------------------------------
\* the number of simulations of the proposal the acceptor accepted
AcceptedCount ==
    Cardinality({i \in DOMAIN model_results : model_results[i].accepted})

(* C9: at generation 0 the particle's weight is (number of accepted        *)
(* simulations) / nr_samples_per_parameter, 0 when none is accepted,       *)
(* whatever the prior densities, the transition and perturbation kernels   *)
(* and the per-sample weights of the acceptor are.                         *)
FirstGenerationWeight ==
    (particle # None /\ e_t = 0) =>
        LET w == Get(particle).weight
        IN  /\ w.d > 0
            /\ w.n * nr_samples_per_parameter = AcceptedCount * w.d

\* generation 0, two simulations of which the first is rejected and the
\* second accepted with an acceptor weight other than 1, a prior density of
\* zero and a zero normalization
FirstGenerationWeightWitness ==
    /\ particle # None /\ e_t = 0
    /\ nr_samples_per_parameter = 2
    /\ ~model_results[1].accepted
    /\ model_results[2].accepted /\ model_results[2].weight # 1
    /\ prior_pdf = 0
    /\ model_factor(model_probabilities) * transition_pdf = 0
    /\ Get(particle).weight = Frac(1, 2)

\* the product of the acceptor weights of the accepted simulations
RECURSIVE AcceptedWeightProduct(_)
AcceptedWeightProduct(i) ==
    IF i = 0 THEN 1
    ELSE (IF model_results[i].accepted THEN model_results[i].weight ELSE 1)
         * AcceptedWeightProduct(i - 1)

(* C18: for t > 0 the weight of an accepted proposal is                    *)
(* model_prior(m) * parameter_prior(theta) * (accepted count / samples per *)
(* parameter) / normalization, times the product of the acceptor weights   *)
(* of the accepted simulations, with normalization = (sum over the rows of *)
(* p * perturbation pmf) * transition pdf; with no accepted simulation the *)
(* weight is 0.  A weight n/d equals a/b when n * b = a * d.               *)
LaterGenerationWeight ==
    (particle # None /\ e_t > 0) =>
        LET w == Get(particle).weight
            normalization ==
                model_factor(model_probabilities) * transition_pdf
        IN  IF AcceptedCount > 0
            THEN /\ w.d = nr_samples_per_parameter * normalization
                 /\ w.n * (nr_samples_per_parameter * normalization)
                      = prior_pmf * prior_pdf * AcceptedCount
                        * AcceptedWeightProduct(Len(model_results)) * w.d
            ELSE w = Frac(0, 1)

\* a later generation, two simulations of which the first is rejected and
\* the second accepted with acceptor weight 2, and a normalization of 2
LaterGenerationWeightWitness ==
    /\ particle # None /\ e_t > 0
    /\ nr_samples_per_parameter = 2
    /\ ~model_results[1].accepted
    /\ model_results[2].accepted /\ model_results[2].weight = 2
    /\ prior_pmf = 1 /\ prior_pdf = 1
    /\ model_factor(model_probabilities) * transition_pdf = 2
    /\ Get(particle).weight = Frac(2, 4)

-----------------------------------------------------------------------------
(* C16: calling the scheduler for generation t returns the value recorded  *)
(* for t and changes no scheduler state; for a generation with no recorded *)
(* value the call raises a lookup error and records nothing.               *)
TempLookup ==
    [][(~c_res.called /\ c_res'.called) =>
         /\ tvars' = tvars
         /\ IF c_t \in DOMAIN temperatures
            THEN ~c_res'.raised /\ c_res'.value = Some(temperatures[c_t])
            ELSE c_res'.raised /\ IsNone(c_res'.value)]_vars

\* a lookup has raised for a generation next to the recorded ones
TempLookupWitness ==
    /\ c_res.called /\ c_res.raised
    /\ temperatures # EmptyDict
    /\ c_t = LastRecorded + 1

-----------------------------------------------------------------------------
(* C20, as stated: when no temperature has been recorded yet and an        *)
(* initial temperature is configured, the value recorded for generation 0  *)
(* is exactly that configured value and no temperature scheme is evaluated.*)
TempInitialVerbatimAlways ==
    [][(/\ temperatures = EmptyDict
        /\ ~IsNone(initial_temperature)
        /\ 0 \in DOMAIN temperatures') =>
         /\ temperatures'[0] = Get(initial_temperature)
         /\ ~evaluated']_vars

(* C20, amended: the same, provided generation 0 is not the last           *)
(* generation (max_nr_populations > 1); when it is the last one, the value *)
(* recorded is 1.0.  No temperature scheme is evaluated in either case.    *)
TempInitialVerbatim ==
    [][(/\ temperatures = EmptyDict
        /\ ~IsNone(initial_temperature)
        /\ 0 \in DOMAIN temperatures') =>
         /\ ~evaluated'
         /\ temperatures'[0] = IF Get(max_nr_populations') > 1
                               THEN Get(initial_temperature) ELSE One]_vars

\* an initial temperature other than 1.0 is the only value recorded, for
\* generation 0 of several
TempInitialVerbatimWitness ==
    /\ DOMAIN temperatures = {0}
    /\ ~IsNone(initial_temperature)
    /\ Get(initial_temperature) # One
    /\ Get(max_nr_populations) \in 2..MaxPop
    /\ temperatures[0] = Get(initial_temperature)
    /\ ~evaluated

-----------------------------------------------------------------------------
-----------------------------------------------------------------------------
\* a step of run() in which generation r_t is persisted and eps and the
\* acceptor are updated for r_t + 1 without an exception
GenerationCompleted ==
    /\ r_pc = "sampling"
    /\ Len(db') = Len(db) + 1
    /\ SubSeq(db', 1, Len(db)) = db
    /\ r_pc' # "raised"

-----------------------------------------------------------------------------
(* C12: every run() call starts at the generation after the latest stored  *)
(* one (generation 0 in an empty database), and a completed generation     *)
(* appends exactly one population, for the generation sampled, next to the *)
(* ones stored: the stored indices are 0, 1, 2, ... with no gap, no repeat *)
(* and no overwrite, over any sequence of run() calls.                     *)
RestartableLoop ==
    [][/\ (r_pc # "sampling" /\ r_pc' = "sampling") =>
              /\ r_t0' = (IF db = <<>> THEN 0 ELSE db[Len(db)].t + 1)
              /\ r_t' = r_t0'
       /\ (db' # db) =>
              /\ r_pc = "sampling"
              /\ Len(db') = Len(db) + 1
              /\ SubSeq(db', 1, Len(db)) = db
              /\ db'[Len(db')].t = r_t
              /\ db'[Len(db')].t = Len(db)]_vars

\* a second run() call on the same object, initialized for generation 1,
\* has appended generation 1 after generation 0 and returned
RestartableLoopWitness ==
    /\ r_pc = "returned"
    /\ Len(db) = 2
    /\ db[1].t = 0 /\ db[2].t = 1
    /\ 1 \in DOMAIN acc_rec
    /\ acc_rec[1] = "initialize"

-----------------------------------------------------------------------------
(* C13: from the call of the Sampler for generation t until the Sampler    *)
(* returns, the records of the distance, of eps and of the acceptor and    *)
(* the fit of the transitions stay as they are: an invocation of the       *)
(* closure writes none of them, and they change only in run() once the     *)
(* Sampler has returned, between generations.                              *)
TemporalPartition ==
    [][(sampler = "running") =>
         /\ (sampler' = "running" /\ db' = db) =>
                /\ compvars' = compvars
                /\ closure' = closure
         /\ (compvars' # compvars) =>
                /\ sample.accepted >= nr_particles
                /\ inflight = 0
                /\ db' # db]_vars

\* an invocation has been evaluated while another one is under way, in a
\* generation that has a fit of the transitions
TemporalPartitionWitness ==
    /\ sampler = "running"
    /\ inflight > 0
    /\ sample.nr_evaluations > 0
    /\ r_t = 1
    /\ fitted = Some(0)
    /\ acc_rec[1] = "update"

-----------------------------------------------------------------------------
\* the latest stored generation and the models alive in it
LatestStored ==
    IF db = <<>> THEN [t |-> PRE_TIME, m |-> {}]
    ELSE [t |-> db[Len(db)].t, m |-> db[Len(db)].population]

(* C14: within a generation t all invocations of the closure, however many *)
(* and however interleaved, read one and the same eps(t), one and the same *)
(* calibration of the acceptor for t, and one and the same set of alive    *)
(* models with their probabilities, those of the generation that was the   *)
(* latest stored one when the closure was built.                           *)
OrderInsensitive ==
    (sampler = "running") =>
        /\ observed.eps \subseteq {Get(current_eps)}
        /\ Cardinality(observed.acceptor) <= 1
        /\ observed.model_probabilities \subseteq {LatestStored}
        /\ Get(closure).t = r_t
        /\ r_t = LatestStored.t + 1

\* three invocations of generation 1 have read the model probabilities and
\* two of them eps and the acceptor, one while another was under way
OrderInsensitiveWitness ==
    /\ sampler = "running"
    /\ r_t = 1
    /\ sample.nr_evaluations = 2
    /\ inflight = 1
    /\ observed.eps # {}
    /\ observed.acceptor = {"update"}
    /\ observed.model_probabilities = {[t |-> 0, m |-> RunModels]}

-----------------------------------------------------------------------------
(* C15: with a finite max_nr_populations = N and a Sampler that returns    *)
(* for every generation, a run() call samples and persists at most N       *)
(* generations, then marks the history as done and returns it; the loop    *)
(* ends by the stopping predicates or the bound of N generations and in no *)
(* other way (a failure of the Sampler or of the database aside, and the   *)
(* default max_nr_populations, which is not finite).                       *)
FiniteRunReturns ==
    /\ (r_pc = "sampling") => r_t - r_t0 < run_max_nr_populations
    /\ (r_pc = "returned") => history_done
    /\ (r_pc = "raised") =>
          r_exc.kind \in {"Sampler", "History", "TypeError: range"}

-----------------------------------------------------------------------------
\* the last run() was left by an exception of the Sampler or the database
RunFailed == r_exc.kind \in {"Sampler", "History"}

(* C19: when the Sampler or the persistence call raises during generation  *)
(* t, the exception leaves run(), no population is appended for t, and the *)
(* latest stored generation stays t - 1; the database stays so until the   *)
(* next run(), on this object or on a new one after load(), which starts   *)
(* at generation t.                                                        *)
FailurePropagates ==
    [][/\ (r_pc = "sampling" /\ r_pc' = "raised" /\ RunFailed') =>
              /\ r_exc'.t = r_t
              /\ db' = db
              /\ Len(db) = r_t
              /\ (r_t > 0) => (db[Len(db)].t = r_t - 1)
              /\ ~history_done'
       /\ (r_pc # "sampling" /\ RunFailed) =>
              /\ db' = db
              /\ (r_pc' = "sampling") => (r_t0' = r_exc.t /\ r_t' = r_exc.t)]_vars

\* the Sampler raised in generation 1, and a new object has loaded the run
FailurePropagatesWitness ==
    /\ r_pc = "idle"
    /\ ~IsNone(history)
    /\ r_exc = Exception("Sampler", 1)
    /\ Len(db) = 1
    /\ IsNone(initial_population)

-----------------------------------------------------------------------------
(* C27: for both policies of UniformAcceptor, the distance in the result   *)
(* is the value computed at the current generation t and the weight is     *)
(* 1.0, also when the complete-history policy rejected because of a        *)
(* comparison at an earlier generation.                                    *)
UniformResultDistance ==
    (u_res.called /\ ~u_res.raised)
    => /\ u_res.distance = dist[t_call]
       /\ u_res.weight = WOne

\* the complete-history policy rejected at an earlier generation whose
\* distance is another one than that of the current generation
UniformResultDistanceWitness ==
    /\ u_res.called /\ ~u_res.raised /\ use_complete_history
    /\ ~u_res.accept
    /\ Get(dist[t_call]) <= Get(thr[t_call])
    /\ \E g \in 0..(t_call - 1) :
          /\ ~Raises(dist, thr, g)
          /\ Get(dist[g]) > Get(thr[g])
          /\ dist[g] # dist[t_call]

-----------------------------------------------------------------------------
-----------------------------------------------------------------------------
(* C29: when the kernel value pd exceeds the constant stored for           *)
(* generation t, the proposal is accepted whatever the uniform draw in     *)
(* [0,1) is, its weight is its acceptance probability r^(1/T), which is    *)
(* above 1, the excess is written to the log, and the call leaves the      *)
(* stored constants as they are.                                           *)
StochExcessAccepted ==
    [][(~s_res.called /\ s_res'.called /\ ~s_res'.raised
          /\ s_pd > pdf_norms[s_t]) =>
         /\ s_res'.accept
         /\ VEq(s_res'.weight, WVal(LogRatio * One, temperatures[s_t]))
         /\ ~VGeq(WOne, s_res'.weight)
         /\ s_logged'
         /\ pdf_norms' = pdf_norms
         /\ temperatures' = temperatures]_vars

\* a kernel value above the constant was accepted against the largest draw
\* at a temperature above 1.0
StochExcessAcceptedWitness ==
    /\ StochReturned
    /\ s_pd > pdf_norms[s_t]
    /\ s_u = WVal(0 - 1, 2)
    /\ temperatures[s_t] > One
    /\ s_res.accept
    /\ s_logged

-----------------------------------------------------------------------------
(* C30: at a generation t > 0, when the normalization (model factor times  *)
(* transition density) of an accepted proposal is zero, the diagnostic is  *)
(* printed and the division is made all the same: the particle is returned *)
(* as accepted, and its weight is the quotient by zero of the same         *)
(* numerator as for any other normalization, neither clamped nor replaced. *)
ZeroNormalization ==
    (/\ particle # None /\ e_t > 0
     /\ AcceptedCount > 0
     /\ model_factor(model_probabilities) * transition_pdf = 0) =>
        /\ printed
        /\ Get(particle).accepted
        /\ Get(particle).weight.d = 0
        /\ Get(particle).weight.n =
              prior_pmf * prior_pdf * AcceptedCount
              * AcceptedWeightProduct(Len(model_results))

\* a later generation, a proposal of positive prior density accepted in
\* both simulations, and a transition density of zero
ZeroNormalizationWitness ==
    /\ particle # None /\ e_t > 0
    /\ nr_samples_per_parameter = 2
    /\ AcceptedCount = 2
    /\ prior_pmf > 0 /\ prior_pdf > 0
    /\ model_factor(model_probabilities) > 0
    /\ transition_pdf = 0
    /\ Get(particle).weight.n > 0
    /\ printed

-----------------------------------------------------------------------------
-----------------------------------------------------------------------------
(* C21: ABCSMC(models, parameter_priors) with a number of models that      *)
(* differs from the number of parameter priors raises before any component *)
(* is set on the object, StochasticKernel(ret_scale) with a tag that is    *)
(* neither the linear nor the logarithmic one raises, and in both cases    *)
(* the caller gets no object.                                              *)
ConstructionRejects ==
    /\ (/\ abcsmc.called
        /\ (IF Get(abcsmc.args).models.is_list
            THEN Get(abcsmc.args).models.len ELSE 1)
           # (IF Get(abcsmc.args).parameter_priors.is_list
              THEN Get(abcsmc.args).parameter_priors.len ELSE 1))
       => /\ abcsmc.raised = Some("AssertionError")
          /\ abcsmc.attrs \cap (Components \cup RunAttributes) = {}
          /\ abcsmc.object = None
    /\ (/\ kernel.called
        /\ Get(kernel.args).ret_scale \notin {"RET_SCALE_LIN", "RET_SCALE_LOG"})
       => /\ kernel.raised = Some("ValueError")
          /\ kernel.attrs = {}
          /\ kernel.object = None

\* one model that is not in a list was passed with a list of two priors, and
\* a kernel was asked for with a tag that is not a scale
ConstructionRejectsWitness ==
    /\ abcsmc.called
    /\ ~Get(abcsmc.args).models.is_list
    /\ Get(abcsmc.args).parameter_priors = [is_list |-> TRUE, len |-> 2]
    /\ abcsmc.raised # None
    /\ kernel.called
    /\ Get(kernel.args).ret_scale = "lin"
    /\ kernel.raised # None

-----------------------------------------------------------------------------
\* the step is the loop of run() going on from the Sampler's return
AfterSampler == r_pc = "sampling" /\ <<db, compvars, r_pc, r_t>>' # <<db, compvars, r_pc, r_t>>

-----------------------------------------------------------------------------
\* the step is a call of run(), up to the first call of the Sampler or to
\* the exception that leaves it before
RunCalled == r_pc # "sampling" /\ r_pc' \in {"sampling", "raised"}

(* C23: in every call of run() the initialize hooks of the distance, of    *)
(* the threshold or temperature and of the acceptor are each invoked once, *)
(* in this order, for generation history.max_t + 1, and before the first   *)
(* closure of the call is handed to the Sampler.  A hook counts as invoked *)
(* when run() calls it, with arguments it takes or not.                    *)
InitializeHooks ==
    [][RunCalled =>
         LET t == max_t(db) + 1
         IN  /\ dist_rec' = (t :> "initialize") @@ dist_rec
             /\ \/ DOMAIN eps_rec' = DOMAIN eps_rec \cup {t}
                \/ r_exc'.kind = "TypeError: eps.initialize"
             /\ \/ acc_rec' = (t :> "initialize") @@ acc_rec
                \/ r_exc'.kind = "TypeError: acceptor.initialize"
             /\ (r_pc' = "sampling") => (r_t' = t /\ Get(closure').t = t)]_vars

(* C24: whenever the closure for generation t is handed to the Sampler the *)
(* scheduler holds a value for t and the acceptor is calibrated for t, and *)
(* no run() after new() or load() is left by a lookup error or an          *)
(* initialization error of the scheduler or of the acceptor.               *)
HooksCalibrated ==
    /\ (r_pc = "sampling") =>
          (r_t \in DOMAIN eps_rec /\ r_t \in DOMAIN acc_rec)
    /\ (r_pc = "raised") =>
          r_exc.kind \notin {"KeyError: eps", "TypeError: eps.initialize",
                             "TypeError: acceptor.initialize"}

-----------------------------------------------------------------------------
(* C26: after generation t, when distance_function.update(t + 1, ..)       *)
(* reports a change every distance of the population of t is recomputed    *)
(* under the metric of t + 1 before the weighted distances are read for    *)
(* the update of the threshold for t + 1; when it reports none the         *)
(* distances stay as the Sampler produced them.  Nothing else of a         *)
(* particle changes, and what the History stored stays as it was stored.   *)
DistanceRecalibration ==
    [][(pop_pc = "appended" /\ pop_pc' = "updated") =>
         /\ Len(pop_particles') = Len(pop_particles)
         /\ \A i \in 1..Len(pop_particles) :
              /\ pop_particles'[i].x = pop_particles[i].x
              /\ pop_particles'[i].distance.x = pop_particles[i].x
              /\ pop_particles'[i].distance.metric =
                     IF Get(df_updated') THEN pop_t + 1 ELSE pop_t
              /\ Get(pop_read').eps[i] = pop_particles'[i].distance
              /\ Get(pop_read').acceptor[i] = pop_particles'[i].distance
         /\ ~Get(df_updated') => pop_particles' = pop_particles
         /\ pop_stored' = pop_stored]_vars

\* the distance reported a change after generation 1: the two particles
\* carry distances under the metric of generation 2, the stored ones those
\* of generation 1
DistanceRecalibrationWitness ==
    /\ pop_pc = "updated"
    /\ pop_t = 1
    /\ df_updated = Some(TRUE)
    /\ Len(pop_particles) = 2
    /\ pop_particles[1].x # pop_particles[2].x
    /\ pop_particles[2].distance.metric = 2
    /\ pop_stored[2].distance.metric = 1
    /\ Get(pop_read).eps[2].metric = 2

-----------------------------------------------------------------------------
\* some alive model has prior mass and a parameter of positive prior density
SomeValidProposal ==
    \E m \in g_alive, th \in Thetas :
        model_prior[m] > 0 /\ parameter_priors[m][th] > 0

(* C31: for t > 0 the proposal generation eventually returns, under fair   *)
(* random choices, when some alive model can be proposed with a parameter  *)
(* of positive prior mass times density; when there is none, it stays in   *)
(* its loop for ever: it neither returns nor raises.                       *)
ProposalTerminates ==
    /\ (g_t > 0 /\ SomeValidProposal) ~> (g_pc = "returned")
    /\ [](g_t > 0 /\ ~SomeValidProposal => g_pc \in {"start", "loop"})
    /\ (g_t > 0 /\ ~SomeValidProposal) ~> (g_pc = "loop")

\* the loop has drawn a pair of prior mass times density zero, and goes on,
\* while another pair would be returned
ProposalTerminatesWitness ==
    /\ g_t > 0
    /\ g_pc = "loop"
    /\ SomeValidProposal
    /\ m_ss # None /\ theta_ss # None
    /\ Get(m_ss) \in g_alive
    /\ model_prior[Get(m_ss)] * parameter_priors[Get(m_ss)][Get(theta_ss)] = 0

-----------------------------------------------------------------------------
(* C32: the calibration sample is drawn from the prior only when the       *)
(* History holds no population and a hook asks for the calibration data,   *)
(* and at most once for an ABCSMC object however often the accessors are   *)
(* called; its number of evaluations is recorded under the generation      *)
(* PRE_TIME, and each of its particles is accepted and has weight 1.0.     *)
CalibrationSample ==
    [][/\ cal_draws' <= 1
       /\ (cal_draws' > cal_draws) =>
              /\ cal_db = <<>>
              /\ cal_calls' = cal_calls + 1
              /\ PRE_TIME \in DOMAIN cal_nr_samples'
              /\ cal_nr_samples'[PRE_TIME] >= Len(Get(cal_population'))
              /\ \A i \in DOMAIN Get(cal_population') :
                    /\ Get(cal_population')[i].accepted
                    /\ Get(cal_population')[i].weight = [n |-> 1, d |-> 1]
                    /\ Get(cal_population')[i].rejected_sum_stats = <<>>
       /\ (cal_calls' = cal_calls + 1 /\ cal_db # <<>>) =>
              /\ cal_draws' = cal_draws
              /\ cal_nr_samples' = cal_nr_samples
       /\ (cal_calls' # cal_calls + 1) =>
              /\ cal_draws' <= cal_draws
              /\ cal_nr_samples' = cal_nr_samples]_vars

\* the accessors were called three times on an object that drew the
\* calibration sample once, and a generation was stored since
CalibrationSampleWitness ==
    /\ cal_draws = 1
    /\ cal_calls = 3
    /\ cal_db # <<>>
    /\ cal_cached = Some("prior")
    /\ PRE_TIME \in DOMAIN cal_nr_samples

-----------------------------------------------------------------------------
(* C33: at the start of every run() call, a second run() on the same       *)
(* ABCSMC object after generations were stored included, the population    *)
(* the initialize hooks get is the last one stored in the History when     *)
(* there is one, and a sample from the prior when there is none.           *)
InitialPopulationLatest ==
    [][(RunCalled /\ eps_sig.initialize = eps_initialize_args) =>
         initial_population' =
             IF n_populations(db) > 0 THEN Some("history")
             ELSE Some("prior")]_vars

-----------------------------------------------------------------------------
(* C34: when run() is called again on the same ABCSMC object after a run() *)
(* that ended with generation t, the threshold or temperature and the      *)
(* calibration of the acceptor for t + 1 are those the update(t + 1) calls *)
(* at the end of the earlier run recorded: the new call does not overwrite *)
(* them.                                                                   *)
ResumedRunKeeps ==
    [][(RunCalled /\ (max_t(db) + 1) \in DOMAIN eps_rec) =>
         /\ eps_rec'[max_t(db) + 1] = eps_rec[max_t(db) + 1]
         /\ (max_t(db) + 1) \in DOMAIN acc_rec =>
                acc_rec'[max_t(db) + 1] = acc_rec[max_t(db) + 1]]_vars

-----------------------------------------------------------------------------
(* C35: _adapt_population_size leaves every transition kernel of the       *)
(* ABCSMC object with the fit it had, the population strategy working on a *)
(* copy; for t = 0 neither _adapt_population_size nor _fit_transitions     *)
(* does anything; for t > 0 _fit_transitions fits the kernels of the       *)
(* models alive in generation t - 1 to that generation and no other.       *)
KernelsKept ==
    [][/\ (fit_call'.method = "_adapt_population_size") =>
              transitions' = transitions
       /\ (fit_call'.t = 0) =>
              /\ transitions' = transitions
              /\ copied_transitions' = copied_transitions
       /\ (fit_call'.method = "_fit_transitions" /\ fit_call'.t > 0) =>
              \A m \in RunModels :
                  IF m \in fit_call'.alive
                  THEN transitions'[m] =
                           Some([by |-> "run", t |-> fit_call'.t - 1])
                  ELSE transitions'[m] = transitions[m]]_vars

\* the strategy has fit its copy of a kernel again, and the kernel of the
\* object has the fit run() gave it; the kernel of a model that was not
\* alive has none
KernelsKeptWitness ==
    /\ fit_call.method = "_adapt_population_size"
    /\ fit_call.t > 0
    /\ copied_transitions # None
    /\ \E m \in RunModels :
          /\ Get(copied_transitions)[m] = Some(StrategyFit)
          /\ transitions[m] = Some(FitTo(1))
    /\ \E m \in RunModels : transitions[m] = None

-----------------------------------------------------------------------------
(* C36: initialize sets the keys of a StochasticKernel to the keys of the  *)
(* observed statistics in ascending order only when the kernel has no keys *)
(* yet; keys given to the constructor are never changed, and an initialize *)
(* on a kernel that has keys leaves them as they are, whatever the         *)
(* observed statistics.                                                    *)
KeyOrdering ==
    /\ [][(keys_calls' = keys_calls + 1) =>
            IF kernel_keys = None
            THEN keys_x_0' # None =>
                   /\ kernel_keys' # None
                   /\ Len(Get(kernel_keys')) = Len(Get(keys_x_0'))
                   /\ {Get(kernel_keys')[i] : i \in DOMAIN Get(kernel_keys')}
                        = {Get(keys_x_0')[i] : i \in DOMAIN Get(keys_x_0')}
                   /\ \A i, j \in DOMAIN Get(kernel_keys') :
                         i < j => Get(kernel_keys')[i] < Get(kernel_keys')[j]
            ELSE kernel_keys' = kernel_keys]_vars
    /\ [](keys_given # None => kernel_keys = keys_given)

\* a second initialize, with statistics of other keys than the kernel has,
\* and the kernel has the keys the first one set, in another order than the
\* first statistics had them
KeyOrderingWitness ==
    /\ keys_calls = 2
    /\ keys_given = None
    /\ kernel_keys = Some(<<1, 2>>)
    /\ keys_x_0 = Some(<<2>>)

-----------------------------------------------------------------------------
(* C37: in every particle _evaluate_proposal returns, the accepted and the *)
(* rejected entries together are nr_samples_per_parameter many, the        *)
(* accepted summary statistics are as many as the accepted distances and   *)
(* the rejected summary statistics as many as the rejected distances,      *)
(* accepted is True exactly when the acceptor accepted a simulation, and a *)
(* particle that is not accepted has weight 0.                             *)
ParticleShape ==
    particle # None =>
        LET p == Get(particle)
        IN  /\ Len(p.accepted_sum_stats) + Len(p.rejected_sum_stats)
                 = nr_samples_per_parameter
            /\ Len(p.accepted_sum_stats) = Len(p.accepted_distances)
            /\ Len(p.rejected_sum_stats) = Len(p.rejected_distances)
            /\ p.accepted <=> AcceptedCount > 0
            /\ ~p.accepted => p.weight.n = 0 /\ p.weight.d # 0

\* a particle of a later generation with an accepted simulation after a
\* rejected one
ParticleShapeWitness ==
    /\ particle # None /\ e_t > 0
    /\ nr_samples_per_parameter > 1
    /\ ~model_results[1].accepted
    /\ model_results[2].accepted
    /\ Get(particle).rejected_distances # <<>>
    /\ Get(particle).accepted

-----------------------------------------------------------------------------
(* C38: a result of the StochasticAcceptor with accept = True has a weight *)
(* of at least 1, and so never the weight 0, for every kernel value,       *)
(* constant, temperature and draw u in [0, 1), a draw of exactly 0         *)
(* included.                                                               *)
AcceptedWeight ==
    (StochReturned /\ s_res.accept) =>
        /\ ~s_res.weight.zero
        /\ s_res.weight.n >= 0

-----------------------------------------------------------------------------
====
